---- MODULE Spec2Model ----
(***************************************************************************)
(* A model of the top-down splay tree of splay.c.                          *)
(*                                                                         *)
(* The heap is modelled as it is in C: nodes are addresses 1..MaxNodes,    *)
(* each with the four fields of struct splay_Node; NULL is address 0.      *)
(* A tree handle is a struct splay_Tree {root, size}.  Every public        *)
(* function of splay.h is one action; the loops inside it are recursive    *)
(* operators that thread the memory through the same helper functions the  *)
(* C code calls (STEP_*, topdown_set_aside, update_*_tip, left_rot, ...).  *)
(***************************************************************************)
EXTENDS Integers, Sequences, FiniteSets, TLC

\* ------------------------------------------------------------- bounds
\* Number of node addresses malloc can hand out.
MaxNodes == 3
\* Keys are the integers 1..MaxKey.
MaxKey == 3
\* Satellite pointers are 0 (a NULL satellite) .. MaxSat.
MaxSat == 1

\* ---------------------------------------------------- program constants
NULL == 0
EXIT_SUCCESS == 0
EXIT_FAILURE == 1
RIGHT_FIRST == 0
LEFT_FIRST == 1
RIGHT_2ND == 2
LEFT_2ND == 3
TD_HIST_KEYS_END == 4

Nodes == 1..MaxNodes
Keys == 1..MaxKey
Sats == 0..MaxSat
\* The two struct splay_Tree objects the callers own.
Trees == {"t1", "t2"}
\* A struct splay_Tree pointer that is NULL.
NoTree == "NULL"
\* The size field is an unsigned int.  Once the count invariant is lost it
\* could grow without limit, so calls that would push it past SizeCap are
\* not taken; it never goes below 0 (SizeNeverWraps), so the wrap-around of
\* unsigned arithmetic is never reached and + and - are modelled exactly.
SizeCap == MaxNodes

VARIABLES keiy, sat, left, right, alloc, root, size, last, aborted, run

vars == <<keiy, sat, left, right, alloc, root, size, last, aborted, run>>

\* ------------------------------------------------------- key comparison
\* LESSKEY with <= for <: a fault that C6 must reject.
LESSKEY_or_equal(m, p, k) == m.keiy[p] <= k

LESSKEY(m, p, k) == m.keiy[p] < k

KEYLESS(m, k, p) == k < m.keiy[p]

\* ------------------------------------------------------------ rotations
\* Both return the memory after the rotation and the new top (ret).
\* left_rot without the rotation: a fault that C21 must reject.
left_rot_skipped(m, t) == [m |-> m, ret |-> t]

left_rot(m, t) ==
    LET u == m.right[t]
    IN  [m   |-> [m EXCEPT !.ok = m.ok /\ t # NULL /\ u # NULL,
                           !.right[t] = m.left[u],
                           !.left[u] = t],
         ret |-> u]

\* right_rot without the rotation: a fault that C20 must reject.
right_rot_skipped(m, t) == [m |-> m, ret |-> t]

right_rot(m, t) ==
    LET s == m.left[t]
    IN  [m   |-> [m EXCEPT !.ok = m.ok /\ t # NULL /\ s # NULL,
                           !.left[t] = m.right[s],
                           !.right[s] = t],
         ret |-> s]

\* ------------------------------------------------- struct splay_Topdown
\* A tip is the address of a pointer: <<"rem", i>> is &td.rem[i].root,
\* <<"left", n>> is &n->left and <<"right", n>> is &n->right.
\* initialize_td_history clearing the first-level slots only: a fault that
\* C24 must reject.
initialize_td_history_first_only(m) ==
    [m EXCEPT !.td.history[RIGHT_FIRST] = NULL,
              !.td.history[LEFT_FIRST] = NULL]

initialize_td_history(m) ==
    [m EXCEPT !.td.history = [i \in 0..(TD_HIST_KEYS_END - 1) |-> NULL]]

initialize_topdown(m) ==
    initialize_td_history(
        [m EXCEPT !.td = [rem |-> [i \in {0, 1} |->
                                     [root |-> NULL, tip |-> <<"rem", i>>]],
                          history |-> [i \in 0..(TD_HIST_KEYS_END - 1) |-> NULL]]])

is_td_history_blank(m) ==
    /\ NULL = m.td.history[RIGHT_FIRST]
    /\ NULL = m.td.history[LEFT_FIRST]

\* *tip
Deref(m, tip) ==
    IF tip[1] = "rem" THEN m.td.rem[tip[2]].root
    ELSE IF tip[1] = "left" THEN m.left[tip[2]]
    ELSE m.right[tip[2]]

\* *tip = v
Store(m, tip, v) ==
    IF tip[1] = "rem" THEN [m EXCEPT !.td.rem[tip[2]].root = v]
    ELSE IF tip[1] = "left" THEN [m EXCEPT !.left[tip[2]] = v]
    ELSE [m EXCEPT !.right[tip[2]] = v]

update_right_tip(m, n) ==
    [Store(m, m.td.rem[1].tip, n) EXCEPT
        !.ok = m.ok /\ n # NULL /\ NULL = Deref(m, m.td.rem[1].tip),
        !.left[n] = NULL,
        !.td.rem[1].tip = <<"left", n>>]

\* update_left_tip without n -> right = NULL: a fault that C25 must reject.
update_left_tip_keeps_right(m, n) ==
    [Store(m, m.td.rem[0].tip, n) EXCEPT
        !.ok = m.ok /\ n # NULL /\ NULL = Deref(m, m.td.rem[0].tip),
        !.td.rem[0].tip = <<"right", n>>]

update_left_tip(m, n) ==
    [Store(m, m.td.rem[0].tip, n) EXCEPT
        !.ok = m.ok /\ n # NULL /\ NULL = Deref(m, m.td.rem[0].tip),
        !.right[n] = NULL,
        !.td.rem[0].tip = <<"right", n>>]

topdown_set_aside(m) ==
    LET pl == m.td.history[RIGHT_2ND]
        pr == m.td.history[LEFT_2ND]
        h  == m.td.history
        moved ==
          IF NULL = pl /\ NULL = pr
          THEN IF h[RIGHT_FIRST] # NULL
               THEN update_left_tip(m, h[RIGHT_FIRST])
               ELSE update_right_tip(m, h[LEFT_FIRST])
          ELSE IF NULL = pr
          THEN IF h[RIGHT_FIRST] # NULL
               THEN LET r == left_rot(m, h[RIGHT_FIRST])
                    IN  update_left_tip(r.m, r.ret)
               ELSE update_left_tip(update_right_tip(m, h[LEFT_FIRST]),
                                    h[RIGHT_2ND])
          ELSE IF h[LEFT_FIRST] # NULL
               THEN LET r == right_rot(m, h[LEFT_FIRST])
                    IN  update_right_tip(r.m, r.ret)
               ELSE update_right_tip(update_left_tip(m, h[RIGHT_FIRST]),
                                     h[LEFT_2ND])
    IN  initialize_td_history(moved)

\* The STEP_* macros: store the root in a history slot and step down.
\* STEP_RIGHT_FIRST stepping off the tree whatever root -> right is: a
\* fault that C29 must reject.
STEP_RIGHT_FIRST_falls_off(m, r) ==
    [m |-> [m EXCEPT !.td.history[RIGHT_FIRST] = r], root |-> NULL]

STEP_RIGHT_FIRST(m, r) ==
    [m |-> [m EXCEPT !.td.history[RIGHT_FIRST] = r], root |-> m.right[r]]

STEP_LEFT_FIRST(m, r) ==
    [m |-> [m EXCEPT !.td.history[LEFT_FIRST] = r], root |-> m.left[r]]

STEP_RIGHT_2ND(m, r) ==
    [m |-> [m EXCEPT !.td.history[RIGHT_2ND] = r], root |-> m.right[r]]

\* STEP_LEFT_2ND without the step: a fault that C27 must reject.
STEP_LEFT_2ND_no_step(m, r) == [m |-> m, root |-> r]

STEP_LEFT_2ND(m, r) ==
    [m |-> [m EXCEPT !.td.history[LEFT_2ND] = r], root |-> m.left[r]]

undo_first_step(m) ==
    LET h == m.td.history
        a == [m EXCEPT !.ok = m.ok /\ (NULL = h[RIGHT_FIRST] \/ NULL = h[LEFT_FIRST])]
        r == IF h[RIGHT_FIRST] # NULL THEN h[RIGHT_FIRST] ELSE h[LEFT_FIRST]
        b == IF h[RIGHT_FIRST] # NULL
             THEN [a EXCEPT !.td.history[RIGHT_FIRST] = NULL]
             ELSE [a EXCEPT !.td.history[LEFT_FIRST] = NULL]
    IN  [m |-> [b EXCEPT !.ok = b.ok /\ r # NULL], root |-> r]

\* undo_2nd_step undoing the first step as well: a fault that C4 must
\* reject.
undo_2nd_step_twice(m) ==
    [m    |-> initialize_td_history(m),
     root |-> IF m.td.history[RIGHT_FIRST] # NULL
              THEN m.td.history[RIGHT_FIRST]
              ELSE m.td.history[LEFT_FIRST]]

undo_2nd_step(m) ==
    LET h == m.td.history
        a == [m EXCEPT !.ok = m.ok /\ (NULL = h[RIGHT_2ND] \/ NULL = h[LEFT_2ND])]
        r == IF h[RIGHT_2ND] # NULL THEN h[RIGHT_2ND] ELSE h[LEFT_2ND]
        b == IF h[RIGHT_2ND] # NULL
             THEN [a EXCEPT !.td.history[RIGHT_2ND] = NULL]
             ELSE [a EXCEPT !.td.history[LEFT_2ND] = NULL]
    IN  [m |-> [b EXCEPT !.ok = b.ok /\ r # NULL], root |-> r]

\* ------------------------------------------------------ search and splay
RECURSIVE search_loop(_, _, _)
\* One pass of the for loop of search_and_splay, and (through the loop's
\* increment, topdown_set_aside) every later pass.
search_loop(m, r, k) ==
    IF LESSKEY(m, r, k) \/ KEYLESS(m, k, r)
    THEN LET s1 == IF LESSKEY(m, r, k) THEN STEP_RIGHT_FIRST(m, r)
                                       ELSE STEP_LEFT_FIRST(m, r)
         IN  IF NULL = s1.root
             THEN LET u == undo_first_step(s1.m)
                  IN  [m |-> u.m, root |-> u.root, found |-> 0]
             ELSE IF LESSKEY(s1.m, s1.root, k) \/ KEYLESS(s1.m, k, s1.root)
             THEN LET s2 == IF LESSKEY(s1.m, s1.root, k)
                            THEN STEP_RIGHT_2ND(s1.m, s1.root)
                            ELSE STEP_LEFT_2ND(s1.m, s1.root)
                  IN  IF NULL = s2.root
                      THEN LET u == undo_2nd_step(s2.m)
                           IN  [m |-> u.m, root |-> u.root, found |-> 0]
                      ELSE search_loop(topdown_set_aside(s2.m), s2.root, k)
             ELSE [m |-> s1.m, root |-> s1.root, found |-> 1]
    ELSE [m |-> m, root |-> r, found |-> 1]

\* The three assertions after the loop.
search_asserts(e, k) ==
    [e.m EXCEPT !.ok =
        /\ e.m.ok
        /\ e.root # NULL
        /\ (1 = e.found \/ LESSKEY(e.m, e.root, k) \/ KEYLESS(e.m, k, e.root))
        /\ (0 = e.found \/ k = e.m.keiy[e.root])]

\* final_zig left out: a fault that C8 must reject.
final_zig_skipped(m) == m

\* "Possible final zig to perform."
final_zig(m) ==
    IF ~ is_td_history_blank(m) THEN topdown_set_aside(m) ELSE m

\* root -> left = td.rem[0].root, and the same on the right.
graft_left(m, r) == [m EXCEPT !.left[r] = m.td.rem[0].root]

graft_right(m, r) == [m EXCEPT !.right[r] = m.td.rem[1].root]

\* The final splice: the root's subtrees go to the tips of the remainder
\* trees, which become the root's subtrees.
\* splice_left without * td.rem[0].tip = root -> left: a fault that C23
\* must reject.
splice_left_no_store(m, r) == graft_left(m, r)

splice_left(m, r) == graft_left(Store(m, m.td.rem[0].tip, m.left[r]), r)

splice_right(m, r) == graft_right(Store(m, m.td.rem[1].tip, m.right[r]), r)

final_splice(m, r) == splice_right(splice_left(m, r), r)

\* e is what the loop left: the memory, the root and the found flag.
search_finish(e, k) ==
    [m     |-> final_splice(final_zig(search_asserts(e, k)), e.root),
     root  |-> e.root,
     found |-> e.found]

search_and_splay(m, r, k) ==
    IF NULL = r
    THEN [m |-> m, root |-> NULL, found |-> 0]
    ELSE search_finish(search_loop(initialize_topdown(m), r, k), k)

\* ------------------------------------------------- what a call returns
\* NoValue stands for a result the function does not have (find, min and
\* max return no int) or did not write (the output parameter of erase).
NoValue == -1

SPLAY_BLANK_RESULT == [found |-> 0, key |-> 0, sat |-> NULL]

\* A returned call: the memory it leaves, its int return code, its
\* struct splay_Result and the value written through psat.
Ret(m, rc, r, psat) == [m |-> m, rc |-> rc, r |-> r, psat |-> psat]

\* ------------------------------------------------------------------ find
\* find_result without the assignment to t -> root: a fault that C3 must
\* reject.
find_result_keeps_root(e, t, k) ==
    Ret(e.m,
        NoValue,
        IF e.found # 0
        THEN [found |-> e.found, key |-> k, sat |-> e.m.sat[e.root]]
        ELSE [SPLAY_BLANK_RESULT EXCEPT !.found = e.found],
        NoValue)

find_result(e, t, k) ==
    Ret([e.m EXCEPT !.root[t] = e.root],
        NoValue,
        IF e.found # 0
        THEN [found |-> e.found, key |-> k, sat |-> e.m.sat[e.root]]
        ELSE [SPLAY_BLANK_RESULT EXCEPT !.found = e.found],
        NoValue)

splay_find(m, t, k) ==
    IF t # NoTree
    THEN find_result(search_and_splay(m, m.root[t], k), t, k)
    ELSE Ret(m, NoValue, SPLAY_BLANK_RESULT, NoValue)

\* ------------------------------------------------------------- min, max
\* min_loop without the descent: a fault that C22 must reject.
min_loop_no_descent(m, r) == [m |-> m, root |-> r]

RECURSIVE min_loop(_, _)
min_loop(m, r) ==
    IF m.left[r] = NULL
    THEN [m |-> m, root |-> r]
    ELSE LET s1 == STEP_LEFT_FIRST(m, r)
             s2 == IF s1.m.left[s1.root] # NULL
                   THEN STEP_LEFT_2ND(s1.m, s1.root) ELSE s1
         IN  min_loop(topdown_set_aside(s2.m), s2.root)

min_graft(m, r, t) ==
    Ret([m EXCEPT !.right[r] = m.td.rem[1].root,
                  !.ok = m.ok /\ NULL = m.td.rem[0].root,
                  !.root[t] = r],
        NoValue,
        [found |-> 1, key |-> m.keiy[r], sat |-> m.sat[r]],
        NoValue)

\* min_tip without * td.rem[1].tip = root -> right: a fault that C18 must
\* reject.
min_tip_drops_right(m, r, t) == min_graft(m, r, t)

min_tip(m, r, t) == min_graft(Store(m, m.td.rem[1].tip, m.right[r]), r, t)

min_finish(e, t) ==
    min_tip([e.m EXCEPT !.ok = e.m.ok /\ e.root # NULL /\ NULL = e.m.left[e.root]],
            e.root, t)

splay_min(m, t) ==
    IF NoTree = t \/ NULL = m.root[t]
    THEN Ret(m, NoValue, SPLAY_BLANK_RESULT, NoValue)
    ELSE min_finish(min_loop(initialize_topdown(m), m.root[t]), t)

RECURSIVE max_loop(_, _)
max_loop(m, r) ==
    IF m.right[r] = NULL
    THEN [m |-> m, root |-> r]
    ELSE LET s1 == STEP_RIGHT_FIRST(m, r)
             s2 == IF s1.m.right[s1.root] # NULL
                   THEN STEP_RIGHT_2ND(s1.m, s1.root) ELSE s1
         IN  max_loop(topdown_set_aside(s2.m), s2.root)

\* max_graft without t -> root = root: a fault that C11 must reject.
max_graft_keeps_root(m, r, t) ==
    Ret([m EXCEPT !.left[r] = m.td.rem[0].root,
                  !.ok = m.ok /\ NULL = m.td.rem[1].root],
        NoValue,
        [found |-> 1, key |-> m.keiy[r], sat |-> m.sat[r]],
        NoValue)

max_graft(m, r, t) ==
    Ret([m EXCEPT !.left[r] = m.td.rem[0].root,
                  !.root[t] = r,
                  !.ok = m.ok /\ NULL = m.td.rem[1].root],
        NoValue,
        [found |-> 1, key |-> m.keiy[r], sat |-> m.sat[r]],
        NoValue)

max_tip(m, r, t) == max_graft(Store(m, m.td.rem[0].tip, m.left[r]), r, t)

max_finish(e, t) ==
    max_tip([e.m EXCEPT !.ok = e.m.ok /\ e.root # NULL /\ NULL = e.m.right[e.root]],
            e.root, t)

splay_max(m, t) ==
    IF NoTree = t \/ NULL = m.root[t]
    THEN Ret(m, NoValue, SPLAY_BLANK_RESULT, NoValue)
    ELSE max_finish(max_loop(initialize_topdown(m), m.root[t]), t)

\* ---------------------------------------------------- allocation, free
\* The addresses malloc can hand out in the memory m: the program's heap.
Heap(m) == DOMAIN m.keiy

\* node_ctor without n -> sat = s, the field staying NULL: a fault that C9
\* must reject.
node_ctor_no_sat(m, k, s, fail) ==
    IF fail \/ Heap(m) \ m.alloc = {}
    THEN [m |-> m, n |-> NULL]
    ELSE [m |-> [m EXCEPT
                    !.alloc = m.alloc \cup
                        {CHOOSE x \in Heap(m) \ m.alloc :
                            \A y \in Heap(m) \ m.alloc : x <= y},
                    !.keiy[CHOOSE x \in Heap(m) \ m.alloc :
                              \A y \in Heap(m) \ m.alloc : x <= y] = k],
          n |-> CHOOSE x \in Heap(m) \ m.alloc :
                    \A y \in Heap(m) \ m.alloc : x <= y]

\* malloc: the lowest free address, or NULL when the allocation fails
\* (fail) or no address is left.
node_ctor(m, k, s, fail) ==
    LET free == Heap(m) \ m.alloc
    IN  IF fail \/ free = {}
        THEN [m |-> m, n |-> NULL]
        ELSE LET n == CHOOSE x \in free : \A y \in free : x <= y
             IN  [m |-> [m EXCEPT !.alloc = m.alloc \cup {n},
                                  !.keiy[n] = k,
                                  !.sat[n] = s,
                                  !.left[n] = NULL,
                                  !.right[n] = NULL],
                  n |-> n]

\* free(n).  The freed node's fields are never read again; they are zeroed
\* so that equal heaps are equal states.  free of an address that is not
\* allocated (a second free of n) is undefined.
FREENODE(m, n) ==
    [m EXCEPT !.ub = m.ub \/ n \notin m.alloc,
              !.alloc = m.alloc \ {n},
              !.keiy[n] = 0,
              !.sat[n] = NULL,
              !.left[n] = NULL,
              !.right[n] = NULL]

\* splay_dtor_helper without the two recursive calls: a fault that C28
\* must reject.
splay_dtor_helper_node_only(m, n) ==
    IF n # NULL THEN FREENODE(m, n) ELSE m

RECURSIVE splay_dtor_helper(_, _)
splay_dtor_helper(m, n) ==
    IF n # NULL
    THEN FREENODE(splay_dtor_helper(splay_dtor_helper(m, m.left[n]),
                                    m.right[n]),
                  n)
    ELSE m

splay_tree_empty_ctor(m, t) ==
    IF NoTree = t
    THEN Ret(m, EXIT_FAILURE, SPLAY_BLANK_RESULT, NoValue)
    ELSE Ret([m EXCEPT !.root[t] = NULL, !.size[t] = 0],
             EXIT_SUCCESS, SPLAY_BLANK_RESULT, NoValue)

splay_tree_clear(m, t) ==
    splay_tree_empty_ctor(IF t # NoTree THEN splay_dtor_helper(m, m.root[t])
                                        ELSE m,
                          t)

\* ---------------------------------------------------------------- insert
is_bst_leaf(m, n) ==
    n # NULL /\ NULL = m.left[n] /\ NULL = m.right[n]

RECURSIVE insert_loop(_, _, _)
insert_loop(m, r, n) ==
    IF r = NULL
    THEN m
    ELSE LET s1 == IF LESSKEY(m, r, m.keiy[n]) THEN STEP_RIGHT_FIRST(m, r)
                                               ELSE STEP_LEFT_FIRST(m, r)
             s2 == IF s1.root # NULL
                   THEN IF LESSKEY(s1.m, s1.root, m.keiy[n])
                        THEN STEP_RIGHT_2ND(s1.m, s1.root)
                        ELSE STEP_LEFT_2ND(s1.m, s1.root)
                   ELSE s1
         IN  insert_loop(topdown_set_aside(s2.m), s2.root, n)

\* insert_graft with the two remainder trees exchanged: a fault that C1
\* must reject.
insert_graft_swapped(m, n) ==
    [m EXCEPT !.ok = m.ok /\ n # NULL /\ NULL = m.left[n] /\ NULL = m.right[n],
              !.left[n] = m.td.rem[1].root,
              !.right[n] = m.td.rem[0].root]

\* "Graft the remainder trees onto the new node n."
insert_graft(m, n) ==
    [m EXCEPT !.ok = m.ok /\ is_bst_leaf(m, n),
              !.left[n] = m.td.rem[0].root,
              !.right[n] = m.td.rem[1].root]

insert_and_splay(m, r, n) ==
    IF NULL = r
    THEN [m |-> m, root |-> n]
    ELSE [m |-> insert_graft(insert_loop(initialize_topdown(m), r, n), n),
          root |-> n]

\* insert_done without t -> size += 1: a fault that C5 must reject.
insert_done_no_count(e, n, t) ==
    Ret([e.m EXCEPT !.root[t] = e.root,
                    !.ok = e.m.ok /\ n = e.root],
        EXIT_SUCCESS, SPLAY_BLANK_RESULT, NoValue)

\* t -> root = the new root; the assertion; t -> size += 1
insert_done(e, n, t) ==
    Ret([e.m EXCEPT !.root[t] = e.root,
                    !.ok = e.m.ok /\ n = e.root,
                    !.size[t] = e.m.size[t] + 1],
        EXIT_SUCCESS, SPLAY_BLANK_RESULT, NoValue)

\* insert_node counting the record it could not allocate: a fault that C16
\* must reject.
insert_node_counts_failure(c, m, t) ==
    IF NULL = c.n
    THEN Ret([m EXCEPT !.size[t] = m.size[t] + 1],
             EXIT_FAILURE, SPLAY_BLANK_RESULT, NoValue)
    ELSE IF NoTree = t
    THEN Ret([c.m EXCEPT !.ub = TRUE],
             EXIT_SUCCESS, SPLAY_BLANK_RESULT, NoValue)
    ELSE insert_done(insert_and_splay(c.m, c.m.root[t], c.n), c.n, t)

\* c is what node_ctor returned, m the memory before the call.  splay_insert
\* does not test t: with a null t and a node allocated, t -> root is a read
\* through a null pointer (ub), with the new node held by nothing but the
\* local variable n.
insert_node(c, m, t) ==
    IF NULL = c.n
    THEN Ret(m, EXIT_FAILURE, SPLAY_BLANK_RESULT, NoValue)
    ELSE IF NoTree = t
    THEN Ret([c.m EXCEPT !.ub = TRUE],
             EXIT_SUCCESS, SPLAY_BLANK_RESULT, NoValue)
    ELSE insert_done(insert_and_splay(c.m, c.m.root[t], c.n), c.n, t)

splay_insert(m, t, k, s, fail) == insert_node(node_ctor(m, k, s, fail), m, t)

\* ---------------------------------------------------------------- update
\* update_done writing the satellite to every record with key k: a fault
\* that C10 must reject.
update_done_all(e, t, k, s) ==
    IF e.found # 0
    THEN Ret([e.m EXCEPT !.root[t] = e.root,
                         !.ok = e.m.ok /\ k = e.m.keiy[e.root],
                         !.sat = [n \in DOMAIN e.m.sat |->
                                    IF n \in e.m.alloc /\ e.m.keiy[n] = k
                                    THEN s ELSE e.m.sat[n]]],
             EXIT_SUCCESS, SPLAY_BLANK_RESULT, NoValue)
    ELSE Ret([e.m EXCEPT !.root[t] = e.root],
             EXIT_FAILURE, SPLAY_BLANK_RESULT, NoValue)

update_done(e, t, k, s) ==
    IF e.found # 0
    THEN Ret([e.m EXCEPT !.root[t] = e.root,
                         !.ok = e.m.ok /\ k = e.m.keiy[e.root],
                         !.sat[e.root] = s],
             EXIT_SUCCESS, SPLAY_BLANK_RESULT, NoValue)
    ELSE Ret([e.m EXCEPT !.root[t] = e.root],
             EXIT_FAILURE, SPLAY_BLANK_RESULT, NoValue)

\* splay_update does not test t either: its first statement reads t -> root.
splay_update(m, t, k, s) ==
    IF NoTree = t
    THEN Ret([m EXCEPT !.ub = TRUE],
             EXIT_FAILURE, SPLAY_BLANK_RESULT, NoValue)
    ELSE update_done(search_and_splay(m, m.root[t], k), t, k, s)

\* ----------------------------------------------------------------- erase
\* FREENODE(radix); t -> size -= 1; return EXIT_SUCCESS
erase_free(m, radix, t, rsat, want) ==
    Ret([FREENODE(m, radix) EXCEPT !.size[t] = m.size[t] - 1],
        EXIT_SUCCESS, SPLAY_BLANK_RESULT,
        IF want THEN rsat ELSE NoValue)

\* erase_succ without t -> root -> left = radix -> left: a fault that C7
\* must reject.
erase_succ_drops_left(succ, radix, t) ==
    [succ.m EXCEPT !.ok = /\ succ.m.ok
                          /\ succ.r.found # 0
                          /\ succ.m.root[t] # NULL
                          /\ NULL = succ.m.left[succ.m.root[t]]]

\* succ is what splay_min returned on the right subtree of *radix.
erase_succ(succ, radix, t) ==
    [succ.m EXCEPT !.ok = /\ succ.m.ok
                          /\ succ.r.found # 0
                          /\ succ.m.root[t] # NULL
                          /\ NULL = succ.m.left[succ.m.root[t]],
                   !.left[succ.m.root[t]] = succ.m.left[radix]]

\* erase_splice with t -> root = NULL for t -> root = radix -> left: a fault
\* that C19 must reject.
erase_splice_loses_left(m, radix, t) ==
    IF m.root[t] # NULL
    THEN erase_succ(splay_min(m, t), radix, t)
    ELSE [m EXCEPT !.root[t] = NULL]

\* m is the memory after t -> root = t -> root -> right.
erase_splice(m, radix, t) ==
    IF m.root[t] # NULL
    THEN erase_succ(splay_min(m, t), radix, t)
    ELSE [m EXCEPT !.root[t] = m.left[radix]]

erase_radix(m, radix, t, rsat, want) ==
    erase_free(erase_splice([m EXCEPT !.root[t] = m.right[radix]], radix, t),
               radix, t, rsat, want)

\* f is what splay_find returned.
erase_found(f, t, k, want) ==
    IF f.r.found = 0
    THEN Ret(f.m, EXIT_FAILURE, SPLAY_BLANK_RESULT, NoValue)
    ELSE erase_radix([f.m EXCEPT !.ok = /\ f.m.ok
                                        /\ f.r.key = k
                                        /\ f.m.root[t] # NULL
                                        /\ f.m.keiy[f.m.root[t]] = k
                                        /\ f.r.sat = f.m.sat[f.m.root[t]]],
                     f.m.root[t], t, f.r.sat, want)

splay_erase(m, t, k, want) == erase_found(splay_find(m, t, k), t, k, want)

\* ------------------------------------------------------------ copy, move
\* copy_helper handing out the source's own nodes: a fault that C12 must
\* reject.
copy_helper_shallow(m, ni, budget) ==
    [m |-> m, rc |-> EXIT_SUCCESS, set |-> TRUE, no |-> ni, budget |-> budget]

\* budget is the number of node_ctor calls of this copy that succeed
\* before malloc fails.  set tells whether *no was assigned.
RECURSIVE copy_helper(_, _, _)
copy_helper(m, ni, budget) ==
    IF NULL = ni
    THEN [m |-> m, rc |-> EXIT_SUCCESS, set |-> TRUE, no |-> NULL,
          budget |-> budget]
    ELSE LET l == copy_helper(m, m.left[ni], budget)
         IN  IF l.rc = EXIT_FAILURE
             THEN [m |-> l.m, rc |-> EXIT_FAILURE, set |-> FALSE, no |-> NULL,
                   budget |-> l.budget]
             ELSE LET r == copy_helper(l.m, l.m.right[ni], l.budget)
                  IN  IF r.rc = EXIT_FAILURE
                      THEN [m |-> splay_dtor_helper(r.m, l.no),
                            rc |-> EXIT_FAILURE, set |-> FALSE, no |-> NULL,
                            budget |-> r.budget]
                      ELSE LET c == node_ctor(r.m, r.m.keiy[ni], r.m.sat[ni],
                                              r.budget = 0)
                           IN  IF NULL = c.n
                               THEN [m |-> splay_dtor_helper(
                                             splay_dtor_helper(c.m, l.no), r.no),
                                     rc |-> EXIT_FAILURE, set |-> TRUE,
                                     no |-> NULL, budget |-> r.budget]
                               ELSE [m |-> [c.m EXCEPT !.left[c.n] = l.no,
                                                       !.right[c.n] = r.no],
                                     rc |-> EXIT_SUCCESS, set |-> TRUE,
                                     no |-> c.n, budget |-> r.budget - 1]

\* c is what copy_helper(ti -> root, & to -> root) returned.
copy_done(c, to) ==
    Ret(IF c.set THEN [c.m EXCEPT !.root[to] = c.no] ELSE c.m,
        c.rc, SPLAY_BLANK_RESULT, NoValue)

\* splay_tree_copy without the test of to -> root: a fault that C15 must
\* reject.
splay_tree_copy_unguarded(m, ti, to, budget) ==
    IF NoTree = ti \/ NoTree = to
    THEN Ret(m, EXIT_FAILURE, SPLAY_BLANK_RESULT, NoValue)
    ELSE copy_done(copy_helper([m EXCEPT !.ok = m.ok /\ 0 = m.size[to],
                                         !.size[to] = m.size[ti]],
                               m.root[ti], budget),
                   to)

splay_tree_copy(m, ti, to, budget) ==
    IF NoTree = ti \/ NoTree = to \/ m.root[to] # NULL
    THEN Ret(m, EXIT_FAILURE, SPLAY_BLANK_RESULT, NoValue)
    ELSE copy_done(copy_helper([m EXCEPT !.ok = m.ok /\ 0 = m.size[to],
                                         !.size[to] = m.size[ti]],
                               m.root[ti], budget),
                   to)

\* splay_tree_move without ti -> root = NULL: a fault that C14 must
\* reject.
splay_tree_move_keeps_source(m, ti, to) ==
    IF NoTree = ti \/ NoTree = to \/ m.root[to] # NULL
    THEN Ret(m, EXIT_FAILURE, SPLAY_BLANK_RESULT, NoValue)
    ELSE Ret([m EXCEPT !.ok = m.ok /\ 0 = m.size[to],
                       !.size[to] = m.size[ti],
                       !.size[ti] = 0,
                       !.root[to] = m.root[ti]],
             EXIT_SUCCESS, SPLAY_BLANK_RESULT, NoValue)

splay_tree_move(m, ti, to) ==
    IF NoTree = ti \/ NoTree = to \/ m.root[to] # NULL
    THEN Ret(m, EXIT_FAILURE, SPLAY_BLANK_RESULT, NoValue)
    ELSE LET a == [m EXCEPT !.ok = m.ok /\ 0 = m.size[to]]
             b == [a EXCEPT !.size[to] = a.size[ti]]
             c == [b EXCEPT !.size[ti] = 0]
             d == [c EXCEPT !.root[to] = c.root[ti]]
         IN  Ret([d EXCEPT !.root[ti] = NULL],
                 EXIT_SUCCESS, SPLAY_BLANK_RESULT, NoValue)

\* ------------------------------------------------------ the health check
INT_MAX == 2147483647

INT_MIN == (0 - INT_MAX) - 1

RECURSIVE breaks_bst_property(_, _, _, _)
breaks_bst_property(m, t, minkey, maxkey) ==
    IF NULL = t
    THEN FALSE
    ELSE IF LESSKEY(m, t, minkey) \/ KEYLESS(m, maxkey, t)
    THEN TRUE
    ELSE \/ breaks_bst_property(m, m.left[t], minkey, m.keiy[t])
         \/ breaks_bst_property(m, m.right[t], m.keiy[t], maxkey)

RECURSIVE splay_nodecount(_, _)
splay_nodecount(m, t) ==
    IF t # NULL
    THEN 1 + splay_nodecount(m, m.left[t]) + splay_nodecount(m, m.right[t])
    ELSE 0

splay_size_failure(m, t) ==
    \/ m.root[t] # NULL /\ 0 = m.size[t]
    \/ NULL = m.root[t] /\ m.size[t] # 0
    \/ m.size[t] # splay_nodecount(m, m.root[t])

splay_health_check(m, t) ==
    IF NoTree = t \/ (0 = m.size[t] /\ NULL = m.root[t])
    THEN EXIT_SUCCESS
    ELSE IF splay_size_failure(m, t)
    THEN EXIT_FAILURE
    ELSE IF breaks_bst_property(m, m.root[t], INT_MIN, INT_MAX)
    THEN EXIT_FAILURE
    ELSE EXIT_SUCCESS

\* ------------------------------------------------- the records of a tree
\* The nodes of the subtree rooted at n.
RECURSIVE Subtree(_, _)
Subtree(m, n) ==
    IF n = NULL
    THEN {}
    ELSE {n} \cup Subtree(m, m.left[n]) \cup Subtree(m, m.right[n])

\* Some record of tree t has key k.
Holds(m, t, k) == \E n \in Subtree(m, m.root[t]) : m.keiy[n] = k

\* ------------------------------------------------------------ the state
\* The whole memory the library works on, as one record: the node fields,
\* the allocated addresses, the tree handles, the (stack-allocated)
\* struct splay_Topdown of the running operation, ok, which turns FALSE
\* when a SPLAY_ASSERT fails, and ub, which turns TRUE when the operation
\* reads or writes through a null pointer: the memory then is the one at
\* that point, and what follows is not defined by the language.
BlankTd ==
    [rem |-> [i \in {0, 1} |-> [root |-> NULL, tip |-> <<"rem", i>>]],
     history |-> [i \in 0..(TD_HIST_KEYS_END - 1) |-> NULL]]

\* The frame of an operation that is under way, for the callers that are
\* followed statement by statement through a descent (see Begin): the
\* operation, its key k, its new node n, the local variable root (cur), the
\* local struct splay_Topdown, the found flag, and pc, the place in the code.
\* Everywhere else no operation is ever seen under way: run is NoRun.
NoRun ==
    [op |-> "none", k |-> 0, n |-> NULL, cur |-> NULL, td |-> BlankTd,
     found |-> 0, pc |-> "idle"]

Mem ==
    [keiy |-> keiy, sat |-> sat, left |-> left, right |-> right,
     alloc |-> alloc, root |-> root, size |-> size,
     td |-> BlankTd, ok |-> TRUE, ub |-> FALSE]

\* What the caller knows of the last call: its arguments (t is the tree, or
\* the source ti of a copy or move; to is its destination) and its results.
\* trip and fresh belong to the round trip insert, find, erase, find (see
\* TripInsert); they are 0 and FALSE everywhere else.
Call(op, t, to, k, s, e) ==
    [op |-> op, t |-> t, to |-> to, k |-> k, s |-> s,
     rc |-> e.rc, r |-> e.r, psat |-> e.psat,
     trip |-> 0, fresh |-> FALSE]

\* The call returns e and the caller notes c, unless an assertion failed on
\* the way: assert() aborts the process (SPLAY_DEBUG is 1 and NDEBUG is not
\* set), and the memory is left as it was found.  aborted says that the
\* process has ended so, or was killed.
Land(e, c) ==
    IF e.m.ok
    THEN /\ keiy' = e.m.keiy
         /\ sat' = e.m.sat
         /\ left' = e.m.left
         /\ right' = e.m.right
         /\ alloc' = e.m.alloc
         /\ root' = e.m.root
         /\ size' = e.m.size
         /\ last' = c
         /\ aborted' = FALSE
         /\ run' = run
    ELSE /\ aborted' = TRUE
         /\ last' = [c EXCEPT !.rc = NoValue, !.r = SPLAY_BLANK_RESULT,
                              !.psat = NoValue]
         /\ UNCHANGED <<keiy, sat, left, right, alloc, root, size, run>>

\* The same, for the callers whose trees are kept within SizeCap records.
Commit(e, c) ==
    /\ \A x \in Trees : e.m.size[x] <= SizeCap
    /\ Land(e, c)

Return(e, op, t, to, k, s) == Commit(e, Call(op, t, to, k, s, e))

Init ==
    /\ keiy = [n \in Nodes |-> 0]
    /\ sat = [n \in Nodes |-> NULL]
    /\ left = [n \in Nodes |-> NULL]
    /\ right = [n \in Nodes |-> NULL]
    /\ alloc = {}
    /\ root = [t \in Trees |-> NULL]
    /\ size = [t \in Trees |-> 0]
    /\ last = [op |-> "ctor", t |-> "t1", to |-> "t1", k |-> 0, s |-> NULL,
               rc |-> EXIT_SUCCESS, r |-> SPLAY_BLANK_RESULT,
               psat |-> NoValue, trip |-> 0, fresh |-> FALSE]
    /\ aborted = FALSE
    /\ run = NoRun

\* ----------------------------------------------------------- the actions
Insert(t, k, s, fail) ==
    /\ ~ aborted
    /\ Return(splay_insert(Mem, t, k, s, fail), "insert", t, t, k, s)

Update(t, k, s) ==
    /\ ~ aborted
    /\ Return(splay_update(Mem, t, k, s), "update", t, t, k, s)

Erase(t, k, want) ==
    /\ ~ aborted
    /\ Return(splay_erase(Mem, t, k, want), "erase", t, t, k, NULL)

Find(t, k) ==
    /\ ~ aborted
    /\ Return(splay_find(Mem, t, k), "find", t, t, k, NULL)

Min(t) ==
    /\ ~ aborted
    /\ Return(splay_min(Mem, t), "min", t, t, 0, NULL)

Max(t) ==
    /\ ~ aborted
    /\ Return(splay_max(Mem, t), "max", t, t, 0, NULL)

Clear(t) ==
    /\ ~ aborted
    /\ Return(splay_tree_clear(Mem, t), "clear", t, t, 0, NULL)

Copy(ti, to, budget) ==
    /\ ~ aborted
    /\ Return(splay_tree_copy(Mem, ti, to, budget), "copy", ti, to, 0, NULL)

Move(ti, to) ==
    /\ ~ aborted
    /\ Return(splay_tree_move(Mem, ti, to), "move", ti, to, 0, NULL)

\* The size field never wraps: a decrement is only reached with size >= 1.
SizeNeverWraps == \A t \in Trees : size[t] >= 0

\* One tree, t1, under the six dictionary operations and clear.
Next ==
    \/ \E k \in Keys, s \in Sats, fail \in BOOLEAN : Insert("t1", k, s, fail)
    \/ \E k \in Keys, s \in Sats : Update("t1", k, s)
    \/ \E k \in Keys, want \in BOOLEAN : Erase("t1", k, want)
    \/ \E k \in Keys : Find("t1", k)
    \/ Min("t1")
    \/ Max("t1")
    \/ Clear("t1")

Spec == Init /\ [][Next]_vars

\* ------------------------------------------------------------- two trees
\* Two trees, t1 and t2, under all nine public operations.  The dictionary
\* operations are applied to t1 by a caller that keeps nothing of a call
\* but its return code (as the cleanup loop of the command-line driver does
\* with erase); clear, copy and move are applied to both trees, so t2 gets
\* its records from t1 and hands them back.
KeysTwo == 1..(MaxKey - 1)

Quiet(e) == [e EXCEPT !.r = SPLAY_BLANK_RESULT, !.psat = NoValue]

InsertTwo(k, s, fail) ==
    /\ ~ aborted
    /\ Return(Quiet(splay_insert(Mem, "t1", k, s, fail)),
              "insert", "t1", "t1", 0, NULL)

UpdateTwo(k, s) ==
    /\ ~ aborted
    /\ Return(Quiet(splay_update(Mem, "t1", k, s)),
              "update", "t1", "t1", 0, NULL)

EraseTwo(k) ==
    /\ ~ aborted
    /\ Return(Quiet(splay_erase(Mem, "t1", k, FALSE)),
              "erase", "t1", "t1", 0, NULL)

FindTwo(k) ==
    /\ ~ aborted
    /\ Return(Quiet(splay_find(Mem, "t1", k)), "find", "t1", "t1", 0, NULL)

MinTwo ==
    /\ ~ aborted
    /\ Return(Quiet(splay_min(Mem, "t1")), "min", "t1", "t1", 0, NULL)

MaxTwo ==
    /\ ~ aborted
    /\ Return(Quiet(splay_max(Mem, "t1")), "max", "t1", "t1", 0, NULL)

NextTwo ==
    \/ \E k \in KeysTwo, s \in Sats, fail \in BOOLEAN : InsertTwo(k, s, fail)
    \/ \E k \in KeysTwo, s \in Sats : UpdateTwo(k, s)
    \/ \E k \in KeysTwo : EraseTwo(k)
    \/ \E k \in KeysTwo : FindTwo(k)
    \/ MinTwo
    \/ MaxTwo
    \/ \E t \in Trees : Clear(t)
    \/ \E ti \in Trees, to \in Trees, budget \in 0..MaxNodes :
           Copy(ti, to, budget)
    \/ \E ti \in Trees, to \in Trees : Move(ti, to)

SpecTwo == Init /\ [][NextTwo]_vars

\* ------------------------------------------------------- the round trip
\* One tree under the operations of Next, and a caller that at any point
\* starts the round trip insert(k, s), find(k), erase(k, &sat), find(k) and
\* notes how far it has come (trip), the satellite it inserted (s, kept
\* through the trip) and whether the tree held no record with key k when
\* the trip began (fresh).
TripCall(op, e, trip, fresh) ==
    [Call(op, "t1", "t1", last.k, last.s, e) EXCEPT
        !.trip = trip, !.fresh = fresh]

TripStart(e, k, s, fresh) ==
    Commit(e, [Call("insert", "t1", "t1", k, s, e) EXCEPT
                  !.trip = IF e.rc = EXIT_SUCCESS THEN 1 ELSE 0,
                  !.fresh = e.rc = EXIT_SUCCESS /\ fresh])

TripInsert(k, s) ==
    /\ ~ aborted
    /\ TripStart(splay_insert(Mem, "t1", k, s, FALSE), k, s,
                 ~ Holds(Mem, "t1", k))

TripFind ==
    /\ ~ aborted
    /\ last.trip = 1
    /\ Commit(splay_find(Mem, "t1", last.k),
              TripCall("find", splay_find(Mem, "t1", last.k), 2, last.fresh))

TripErase ==
    /\ ~ aborted
    /\ last.trip = 2
    /\ Commit(splay_erase(Mem, "t1", last.k, TRUE),
              TripCall("erase", splay_erase(Mem, "t1", last.k, TRUE), 3,
                       last.fresh))

TripFindAgain ==
    /\ ~ aborted
    /\ last.trip = 3
    /\ Commit(splay_find(Mem, "t1", last.k),
              TripCall("find", splay_find(Mem, "t1", last.k), 4, last.fresh))

NextTrip ==
    \/ Next
    \/ \E k \in Keys, s \in Sats : TripInsert(k, s)
    \/ TripFind
    \/ TripErase
    \/ TripFindAgain

SpecTrip == Init /\ [][NextTrip]_vars

\* ------------------------------------------------------------ properties
\* The nodes of the subtree rooted at n, from left to right.
RECURSIVE InOrder(_, _)
InOrder(m, n) ==
    IF n = NULL
    THEN <<>>
    ELSE InOrder(m, m.left[n]) \o <<n>> \o InOrder(m, m.right[n])

\* The last call was op on t1, and it returned.
Did(op) == ~ aborted /\ last.op = op /\ last.t = "t1"

\* C1: in every state reachable from the empty tree by insert, update,
\* erase, find, min and max (duplicate keys allowed), every node's key is >=
\* every key of its left subtree and <= every key of its right subtree, and
\* the range test of the health check passes.
C1_BstOrder ==
    /\ \A n \in Subtree(Mem, root["t1"]) :
          /\ \A x \in Subtree(Mem, left[n]) : keiy[x] <= keiy[n]
          /\ \A x \in Subtree(Mem, right[n]) : keiy[n] <= keiy[x]
    /\ ~ breaks_bst_property(Mem, root["t1"], INT_MIN, INT_MAX)

\* A full tree whose root and left child hold the same key, just after max
\* splayed the root up.
C1_Witness ==
    /\ Did("max")
    /\ last.r.found = 1
    /\ size["t1"] = MaxNodes
    /\ left[root["t1"]] # NULL
    /\ keiy[left[root["t1"]]] = keiy[root["t1"]]

\* C2: in every state reachable by any sequence of the nine public
\* operations, whatever each call returned, every tree's size field equals
\* the number of nodes reachable from its root, and the size is 0 exactly
\* when the root is absent.
C2_CountInvariant ==
    \A t \in Trees :
        /\ size[t] = Cardinality(Subtree(Mem, root[t]))
        /\ (size[t] = 0 <=> root[t] = NULL)

\* m is the memory before find(k) on t1, e what the call returned.
FindPost(m, e, k) ==
    /\ e.m.ok
    /\ (e.r.found # 0) <=> Holds(m, "t1", k)
    /\ e.r.found # 0 =>
          /\ e.r.key = k
          /\ e.m.root["t1"] # NULL
          /\ e.m.keiy[e.m.root["t1"]] = k
          /\ e.r.sat = e.m.sat[e.m.root["t1"]]

\* C3: for any reachable tree and any key k, find(k) reports found exactly
\* when some record with key k is in the tree; when it reports found, the
\* result's key is k, the root's key is k, and the result's satellite is the
\* root's satellite.
C3_Find == \A k \in Keys : FindPost(Mem, splay_find(Mem, "t1", k), k)

\* find has just found a key that two of the three records hold.
C3_Witness ==
    /\ Did("find")
    /\ last.r.found = 1
    /\ size["t1"] = MaxNodes
    /\ Cardinality({n \in Subtree(Mem, root["t1"]) : keiy[n] = last.k}) = 2

\* The node at which a plain binary search for k from n stops: the node
\* whose key is k, or the one whose child link towards k is absent.
RECURSIVE LastCompared(_, _, _)
LastCompared(m, n, k) ==
    IF m.keiy[n] < k /\ m.right[n] # NULL
    THEN LastCompared(m, m.right[n], k)
    ELSE IF k < m.keiy[n] /\ m.left[n] # NULL
    THEN LastCompared(m, m.left[n], k)
    ELSE n

\* The child link of n in the direction of k.
Towards(m, n, k) == IF m.keiy[n] < k THEN m.right[n] ELSE m.left[n]

\* m is the memory before find(k) on t1, e what the call returned.
FailedFindPost(m, e, k) ==
    (m.root["t1"] # NULL /\ ~ Holds(m, "t1", k)) =>
        /\ e.m.ok
        /\ e.r.found = 0
        /\ e.m.root["t1"] = LastCompared(m, m.root["t1"], k)
        /\ Towards(m, e.m.root["t1"], k) = NULL
        /\ e.m.keiy[e.m.root["t1"]] = m.keiy[e.m.root["t1"]]
        /\ Holds(m, "t1", e.m.keiy[e.m.root["t1"]])

\* C4: find(k) on a non-empty tree that does not contain k reports not-found
\* and makes the root the node that was last compared with k on the search
\* path (the node whose child link in the direction of k is absent); the
\* root's key is a key that was in the tree before the call.
C4_FailedFind ==
    \A k \in Keys : FailedFindPost(Mem, splay_find(Mem, "t1", k), k)

\* A failed find has left at the root of a full tree a node with records on
\* both sides of the key looked for.
C4_Witness ==
    /\ Did("find")
    /\ last.r.found = 0
    /\ size["t1"] = MaxNodes
    /\ left[root["t1"]] # NULL
    /\ right[root["t1"]] # NULL

\* Every node of tree t in m is still a node of tree t in e.m, with the
\* key and the satellite it had.
Kept(m, e, nodes) ==
    \A x \in nodes :
        /\ x \in Subtree(e.m, e.m.root["t1"])
        /\ e.m.keiy[x] = m.keiy[x]
        /\ e.m.sat[x] = m.sat[x]

\* m is the memory before insert(k, s) on t1, e what the call returned.
InsertPost(m, e, k, s) ==
    e.rc = EXIT_SUCCESS =>
        /\ e.m.ok
        /\ e.m.root["t1"] # NULL
        /\ e.m.root["t1"] \notin Subtree(m, m.root["t1"])
        /\ e.m.keiy[e.m.root["t1"]] = k
        /\ e.m.sat[e.m.root["t1"]] = s
        /\ e.m.size["t1"] = m.size["t1"] + 1
        /\ Subtree(e.m, e.m.root["t1"])
               = Subtree(m, m.root["t1"]) \cup {e.m.root["t1"]}
        /\ Kept(m, e, Subtree(m, m.root["t1"]))

\* C5: a successful insert(k, s) on any tree (also one that already holds
\* records with key k) makes the new record (k, s) the root, increases the
\* count by exactly one, and keeps every record the tree held, with its key
\* and its satellite.
C5_Insert ==
    \A k \in Keys, s \in Sats, fail \in BOOLEAN :
        InsertPost(Mem, splay_insert(Mem, "t1", k, s, fail), k, s)

\* An insert has just succeeded on a tree that already held its key, with
\* another satellite.
C5_Witness ==
    /\ Did("insert")
    /\ last.rc = EXIT_SUCCESS
    /\ size["t1"] = MaxNodes
    /\ \E n \in Subtree(Mem, root["t1"]) :
          /\ n # root["t1"]
          /\ keiy[n] = last.k
          /\ sat[n] # last.s

\* m is the memory before insert(k, s) on t1, e what the call returned.
InsertSides(m, e, k) ==
    e.rc = EXIT_SUCCESS =>
        /\ \A x \in Subtree(e.m, e.m.left[e.m.root["t1"]]) : e.m.keiy[x] < k
        /\ \A x \in Subtree(e.m, e.m.right[e.m.root["t1"]]) : e.m.keiy[x] >= k
        /\ \A x \in Subtree(m, m.root["t1"]) :
              m.keiy[x] = k => x \in Subtree(e.m, e.m.right[e.m.root["t1"]])

\* C6: immediately after insert(k, s), every key in the new root's left
\* subtree is strictly less than k and every key in its right subtree is
\* greater than or equal to k; every record with key k that the tree held
\* is in the right subtree.
C6_InsertSides ==
    \A k \in Keys, s \in Sats, fail \in BOOLEAN :
        InsertSides(Mem, splay_insert(Mem, "t1", k, s, fail), k)

\* An insert has just put a smaller key on the left of the new root and a
\* record with the inserted key on its right.
C6_Witness ==
    /\ Did("insert")
    /\ last.rc = EXIT_SUCCESS
    /\ keiy[root["t1"]] = last.k
    /\ left[root["t1"]] # NULL
    /\ right[root["t1"]] # NULL
    /\ keiy[left[root["t1"]]] < last.k
    /\ keiy[right[root["t1"]]] = last.k

\* m is the memory before erase(k, psat) on t1, e what the call returned;
\* want tells whether psat was non-null.
ErasePost(m, e, k, want) ==
    Holds(m, "t1", k) =>
        /\ e.m.ok
        /\ e.rc = EXIT_SUCCESS
        /\ e.m.size["t1"] = m.size["t1"] - 1
        /\ \E x \in Subtree(m, m.root["t1"]) :
              /\ m.keiy[x] = k
              /\ Subtree(e.m, e.m.root["t1"]) = Subtree(m, m.root["t1"]) \ {x}
              /\ Kept(m, e, Subtree(m, m.root["t1"]) \ {x})
              /\ want => e.psat = m.sat[x]

\* C7: erase(k) on a tree containing k returns success, decreases the count
\* by exactly one, removes exactly one record with key k while keeping
\* every other record (key and satellite), and the satellite written to the
\* output parameter is the satellite of the removed record.
C7_Erase ==
    \A k \in Keys, want \in BOOLEAN :
        ErasePost(Mem, splay_erase(Mem, "t1", k, want), k, want)

\* An erase has just removed one of two records with the same key and
\* written its satellite, which differs from the satellite of the other.
C7_Witness ==
    /\ Did("erase")
    /\ last.rc = EXIT_SUCCESS
    /\ last.psat \in Sats
    /\ size["t1"] = MaxNodes - 1
    /\ \E n \in Subtree(Mem, root["t1"]) :
          keiy[n] = last.k /\ sat[n] # last.psat

\* m is the memory before erase(k, psat) on t1, e what the call returned:
\* the tree is exactly as it was.
EraseAbsentUnchanged(m, e, k) ==
    ~ Holds(m, "t1", k) =>
        /\ e.rc = EXIT_FAILURE
        /\ e.m.root = m.root
        /\ e.m.left = m.left
        /\ e.m.right = m.right
        /\ e.m.keiy = m.keiy
        /\ e.m.sat = m.sat
        /\ e.m.size = m.size

\* C8, as the claim states it: erase(k) on a tree that does not contain k
\* returns failure and leaves the tree unchanged.  It fails: the find that
\* erase begins with splays the last node it compared to the root.
C8_EraseAbsentUnchanged ==
    \A k \in Keys, want \in BOOLEAN :
        EraseAbsentUnchanged(Mem, splay_erase(Mem, "t1", k, want), k)

\* m is the memory before erase(k, psat) on t1, e what the call returned:
\* the records are as they were, the shape need not be.
EraseAbsentPost(m, e, k) ==
    ~ Holds(m, "t1", k) =>
        /\ e.m.ok
        /\ e.rc = EXIT_FAILURE
        /\ e.psat = NoValue
        /\ InOrder(e.m, e.m.root["t1"]) = InOrder(m, m.root["t1"])
        /\ Kept(m, e, Subtree(m, m.root["t1"]))
        /\ e.m.size = m.size
        /\ e.m.alloc = m.alloc
        /\ m.root["t1"] # NULL =>
              e.m.root["t1"] = LastCompared(m, m.root["t1"], k)

\* C8, amended: erase(k) on a tree that does not contain k returns failure,
\* writes nothing to the output parameter, frees no node, and leaves the
\* count, the records and their left-to-right order unchanged; the shape may
\* change, since the last node compared with k becomes the root.
C8_EraseAbsent ==
    \A k \in Keys, want \in BOOLEAN :
        EraseAbsentPost(Mem, splay_erase(Mem, "t1", k, want), k)

\* An erase has just failed on a full tree, leaving at the root a node with
\* records on both sides of the key it looked for.
C8_Witness ==
    /\ Did("erase")
    /\ last.rc = EXIT_FAILURE
    /\ size["t1"] = MaxNodes
    /\ left[root["t1"]] # NULL
    /\ right[root["t1"]] # NULL
    /\ keiy[left[root["t1"]]] < last.k
    /\ last.k < keiy[right[root["t1"]]]

\* C9: for any tree, insert(k, s) followed immediately by find(k) reports
\* found with satellite s (even if other records with key k exist); an
\* erase(k) following that returns the same s, and if the tree held no other
\* record with key k, a find(k) after that reports not-found.  None of the
\* four calls fails an assertion.
C9_RoundTrip ==
    /\ last.trip > 0 => ~ aborted
    /\ last.trip = 2 => last.r.found # 0 /\ last.r.sat = last.s
    /\ last.trip = 3 => last.rc = EXIT_SUCCESS /\ last.psat = last.s
    /\ (last.trip = 4 /\ last.fresh) => last.r.found = 0

\* The fourth call of a round trip has just returned, on a tree that holds
\* two records with other keys.
C9_Witness ==
    /\ ~ aborted
    /\ last.trip = 4
    /\ last.fresh
    /\ last.op = "find"
    /\ last.r.found = 0
    /\ size["t1"] = MaxNodes - 1

\* The records of t1 whose satellite in e.m is not the one they had in m.
Changed(m, e) ==
    {x \in Subtree(m, m.root["t1"]) : e.m.sat[x] # m.sat[x]}

\* What update(k, s) does whether it succeeds or fails (m is the memory
\* before the call on t1, e what the call returned).
UpdateFrame(m, e, k, s) ==
    /\ e.m.ok
    /\ (e.rc = EXIT_SUCCESS) <=> Holds(m, "t1", k)
    /\ e.rc \in {EXIT_SUCCESS, EXIT_FAILURE}
    /\ e.m.size = m.size
    /\ e.rc = EXIT_SUCCESS =>
          /\ e.m.root["t1"] # NULL
          /\ e.m.keiy[e.m.root["t1"]] = k
          /\ e.m.sat[e.m.root["t1"]] = s
    /\ e.rc = EXIT_FAILURE => Kept(m, e, Subtree(m, m.root["t1"]))

UpdateExactlyOne(m, e, k, s) ==
    /\ UpdateFrame(m, e, k, s)
    /\ e.rc = EXIT_SUCCESS => Cardinality(Changed(m, e)) = 1

\* C10, as the claim states it: update(k, s) returns success exactly when a
\* record with key k is in the tree; on success the root has key k and
\* satellite s and exactly one record's satellite differs from before the
\* call; on failure no record's key or satellite changes and the count is
\* unchanged.  It fails when s is the satellite the record already had.
C10_UpdateExactlyOne ==
    \A k \in Keys, s \in Sats :
        UpdateExactlyOne(Mem, splay_update(Mem, "t1", k, s), k, s)

UpdatePost(m, e, k, s) ==
    /\ UpdateFrame(m, e, k, s)
    /\ InOrder(e.m, e.m.root["t1"]) = InOrder(m, m.root["t1"])
    /\ e.m.keiy = m.keiy
    /\ e.rc = EXIT_SUCCESS =>
          /\ Changed(m, e) \subseteq {e.m.root["t1"]}
          /\ (Changed(m, e) = {}) <=> (s = m.sat[e.m.root["t1"]])

\* C10, amended: update(k, s) returns success exactly when a record with
\* key k is in the tree; on success the root has key k and satellite s, no
\* other record's satellite changes, and the root record's satellite
\* differs from before exactly when s is not the satellite it had; on
\* failure no record's satellite changes; either way the keys, the
\* left-to-right order of the records and the count are unchanged.
C10_Update ==
    \A k \in Keys, s \in Sats :
        UpdatePost(Mem, splay_update(Mem, "t1", k, s), k, s)

\* An update has just succeeded on a full tree in which another record has
\* the same key and kept a different satellite.
C10_Witness ==
    /\ Did("update")
    /\ last.rc = EXIT_SUCCESS
    /\ size["t1"] = MaxNodes
    /\ sat[root["t1"]] = last.s
    /\ \E n \in Subtree(Mem, root["t1"]) :
          /\ n # root["t1"]
          /\ keiy[n] = last.k
          /\ sat[n] # last.s

\* m is the memory before min() on t1, e what the call returned.
MinPost(m, e) ==
    /\ e.m.ok
    /\ (e.r.found = 0) <=> (m.root["t1"] = NULL)
    /\ e.r.found # 0 =>
          /\ \A x \in Subtree(m, m.root["t1"]) : e.r.key <= m.keiy[x]
          /\ e.m.root["t1"] \in Subtree(m, m.root["t1"])
          /\ m.keiy[e.m.root["t1"]] = e.r.key
          /\ e.m.keiy[e.m.root["t1"]] = e.r.key
          /\ e.r.sat = e.m.sat[e.m.root["t1"]]
          /\ e.m.left[e.m.root["t1"]] = NULL

\* m is the memory before max() on t1, e what the call returned.
MaxPost(m, e) ==
    /\ e.m.ok
    /\ (e.r.found = 0) <=> (m.root["t1"] = NULL)
    /\ e.r.found # 0 =>
          /\ \A x \in Subtree(m, m.root["t1"]) : m.keiy[x] <= e.r.key
          /\ e.m.root["t1"] \in Subtree(m, m.root["t1"])
          /\ m.keiy[e.m.root["t1"]] = e.r.key
          /\ e.m.keiy[e.m.root["t1"]] = e.r.key
          /\ e.r.sat = e.m.sat[e.m.root["t1"]]
          /\ e.m.right[e.m.root["t1"]] = NULL

CopyNodes == 2 * MaxNodes

InitCopy ==
    /\ keiy = [n \in 1..CopyNodes |-> 0]
    /\ sat = [n \in 1..CopyNodes |-> NULL]
    /\ left = [n \in 1..CopyNodes |-> NULL]
    /\ right = [n \in 1..CopyNodes |-> NULL]
    /\ alloc = {}
    /\ root = [t \in Trees |-> NULL]
    /\ size = [t \in Trees |-> 0]
    /\ last = [op |-> "ctor", t |-> "t1", to |-> "t1", k |-> 0, s |-> NULL,
               rc |-> EXIT_SUCCESS, r |-> SPLAY_BLANK_RESULT,
               psat |-> NoValue, trip |-> 0, fresh |-> FALSE]
    /\ aborted = FALSE
    /\ run = NoRun

\* A call whose result the caller drops: what it knows of its last noted
\* call stays as it is.
Silent(e) ==
    /\ ~ aborted
    /\ Commit(e, last)

InsertSilent(k, s) == Silent(splay_insert(Mem, "t1", k, s, FALSE))

UpdateSilent(k, s) == Silent(splay_update(Mem, "t1", k, s))

EraseSilent(k) == Silent(splay_erase(Mem, "t1", k, FALSE))

FindSilent(k) == Silent(splay_find(Mem, "t1", k))

MinSilent == Silent(splay_min(Mem, "t1"))

MaxSilent == Silent(splay_max(Mem, "t1"))

NextCopy ==
    \/ \E k \in KeysTwo, s \in Sats : InsertSilent(k, s)
    \/ \E k \in KeysTwo, s \in Sats : UpdateSilent(k, s)
    \/ \E k \in KeysTwo : EraseSilent(k)
    \/ \E k \in KeysTwo : FindSilent(k)
    \/ MinSilent
    \/ MaxSilent
    \/ \E budget \in 0..MaxNodes : Copy("t1", "t2", budget)

SpecCopy == InitCopy /\ [][NextCopy]_vars

\* Tree t is empty: no root and count 0.
EmptyTree(m, t) == m.root[t] = NULL /\ m.size[t] = 0

\* The subtree at a in ma and the subtree at b in mb have the same shape,
\* with the same key and the same satellite at each place.
RECURSIVE SameTree(_, _, _, _)
SameTree(ma, a, mb, b) ==
    IF a = NULL \/ b = NULL
    THEN a = b
    ELSE /\ ma.keiy[a] = mb.keiy[b]
         /\ ma.sat[a] = mb.sat[b]
         /\ SameTree(ma, ma.left[a], mb, mb.left[b])
         /\ SameTree(ma, ma.right[a], mb, mb.right[b])

\* All there is to tree t: its handle and the fields of its nodes.
TreeView(m, t) ==
    [root  |-> m.root[t],
     size  |-> m.size[t],
     nodes |-> [n \in Subtree(m, m.root[t]) |->
                  <<m.keiy[n], m.sat[n], m.left[n], m.right[n]>>]]

\* m is the memory before copy(t1, t2), e what the call returned.
CopyPost(m, e) ==
    e.rc = EXIT_SUCCESS =>
        /\ e.m.ok
        /\ e.m.size["t2"] = m.size["t1"]
        /\ SameTree(m, m.root["t1"], e.m, e.m.root["t2"])
        /\ Subtree(e.m, e.m.root["t2"]) \cap Subtree(e.m, e.m.root["t1"]) = {}
        /\ Subtree(e.m, e.m.root["t2"]) \cap m.alloc = {}
        /\ Subtree(e.m, e.m.root["t2"]) \subseteq e.m.alloc
        /\ TreeView(e.m, "t1") = TreeView(m, "t1")

CopyPostAll ==
    EmptyTree(Mem, "t2") =>
        \A budget \in 0..MaxNodes :
            CopyPost(Mem, splay_tree_copy(Mem, "t1", "t2", budget))

\* No step changes a t2 that holds records: every step but the copy is an
\* operation on t1.
CopyKept == root["t2"] # NULL => TreeView(Mem, "t2")' = TreeView(Mem, "t2")

\* C12: after a successful copy(t1, t2) into an empty t2, t2 has the count,
\* the shape, the keys and the satellites of t1, its nodes are newly
\* allocated ones (none is a node of t1), and t1 is as it was; no later
\* insert, update, erase, find, min or max on t1 changes the handle of t2 or
\* any field of a node of t2.
C12_CopyIndependent == [] CopyPostAll /\ [][CopyKept]_vars

\* t2 still is the full copy, with a record on each side of its root, that
\* the last noted call made; t1 has lost two of its three records since.
C12_Witness ==
    /\ ~ aborted
    /\ last.op = "copy"
    /\ last.rc = EXIT_SUCCESS
    /\ size["t2"] = MaxNodes
    /\ left[root["t2"]] # NULL
    /\ right[root["t2"]] # NULL
    /\ size["t1"] = 1
    /\ sat[root["t1"]] # sat[root["t2"]]

\* m is the memory before copy(t1, t2), e what the call returned.
CopyFailurePost(m, e) ==
    e.rc = EXIT_FAILURE =>
        /\ e.m.ok
        /\ e.m.root["t2"] = NULL
        /\ e.m.size["t2"] = 0

\* C13: if a node allocation fails at any point of copy(t1, t2) into an
\* empty t2, copy returns failure and t2 is left empty: its root is absent
\* and its count is 0.  It fails: the count of t2 stays the count of t1.
C13_CopyFailureEmpty ==
    EmptyTree(Mem, "t2") =>
        \A budget \in 0..MaxNodes :
            CopyFailurePost(Mem, splay_tree_copy(Mem, "t1", "t2", budget))

\* m is the memory before move(ti, to), e what the call returned.
MovePost(m, e, ti, to) ==
    /\ e.m.ok
    /\ e.rc = EXIT_SUCCESS
    /\ e.m.root[ti] = NULL
    /\ e.m.size[ti] = 0
    /\ e.m.root[to] = m.root[ti]
    /\ e.m.size[to] = m.size[ti]
    /\ SameTree(m, m.root[ti], e.m, e.m.root[to])
    /\ e.m.keiy = m.keiy
    /\ e.m.sat = m.sat
    /\ e.m.left = m.left
    /\ e.m.right = m.right
    /\ e.m.alloc = m.alloc

\* C14: move(a, b) into an empty b (count 0, no root), a and b distinct,
\* succeeds; after it a is empty (count 0, no root) and b has the root
\* node and the count that a had, no field of any node has changed (so the
\* shape and the records are those a had), and no node was allocated or
\* freed.
C14_Move ==
    \A ti \in Trees, to \in Trees :
        (ti # to /\ EmptyTree(Mem, to)) =>
            MovePost(Mem, splay_tree_move(Mem, ti, to), ti, to)

\* move has just handed the three records of t1, one on each side of the
\* root, to t2.
C14_Witness ==
    /\ ~ aborted
    /\ last.op = "move"
    /\ last.rc = EXIT_SUCCESS
    /\ last.t = "t1"
    /\ last.to = "t2"
    /\ root["t1"] = NULL
    /\ size["t1"] = 0
    /\ size["t2"] = MaxNodes
    /\ left[root["t2"]] # NULL
    /\ right[root["t2"]] # NULL

\* m is the memory before the call, e what it returned: failure, and not a
\* byte of the memory differs.
Refused(m, e) ==
    /\ e.rc = EXIT_FAILURE
    /\ e.m = m

\* C15: copy(a, b) and move(a, b) called with a destination b that holds a
\* record (its root is not NULL) return failure and leave the whole memory,
\* so both a and b (roots, shapes, records, counts), exactly as it was.
C15_Refused ==
    \A ti \in Trees, to \in Trees :
        root[to] # NULL =>
            /\ Refused(Mem, splay_tree_move(Mem, ti, to))
            /\ \A budget \in 0..MaxNodes :
                  Refused(Mem, splay_tree_copy(Mem, ti, to, budget))

\* A copy from t1 to t2 has just been refused; t1 holds two records and t2
\* one.
C15_Witness ==
    /\ ~ aborted
    /\ last.op = "copy"
    /\ last.rc = EXIT_FAILURE
    /\ last.t = "t1"
    /\ last.to = "t2"
    /\ size["t1"] = MaxNodes - 1
    /\ root["t1"] # NULL
    /\ root["t2"] # NULL
    /\ root["t1"] # root["t2"]

\* m is the memory before insert(k, s) on t1, e what the call returned.
InsertFailurePost(m, e) ==
    /\ e.rc = EXIT_FAILURE
    /\ e.m.ok
    /\ TreeView(e.m, "t1") = TreeView(m, "t1")
    /\ InOrder(e.m, e.m.root["t1"]) = InOrder(m, m.root["t1"])
    /\ e.m = m

\* C16: if the node allocation fails during insert(k, s) (malloc returns
\* NULL, because it fails or because no address is left), insert returns
\* failure and the tree is completely unchanged: same root, same shape, same
\* records and same count; nothing else in the memory changes either.
C16_InsertFailure ==
    \A k \in Keys, s \in Sats, fail \in BOOLEAN :
        (fail \/ alloc = Heap(Mem)) =>
            InsertFailurePost(Mem, splay_insert(Mem, "t1", k, s, fail))

\* An insert has just failed on a tree of two records that holds no record
\* with its key.
C16_Witness ==
    /\ Did("insert")
    /\ last.rc = EXIT_FAILURE
    /\ size["t1"] = MaxNodes - 1
    /\ ~ Holds(Mem, "t1", last.k)
    /\ Cardinality(alloc) = MaxNodes - 1

\* ------------------------------------------------------- null tree handles
\* One tree, t1, under insert, erase and find, and a caller that also passes
\* a null pointer for a tree handle to each of the ten public operations
\* (for copy and move: for the source, for the destination, or for both).
\* Of a call the caller notes the operation and the results only.
\*
\* What a build does once the operation has read through the null pointer
\* is not defined.  The outcomes modelled are: the process is killed (as
\* after a failed assertion, nothing more happens), or the call returns,
\* with success or with failure, having left the memory as it was at the
\* point of the read.
Outcomes == {"killed", "success", "failure"}

Resolve(e, outcome) ==
    IF ~ e.m.ub
    THEN e
    ELSE IF outcome = "killed"
    THEN [e EXCEPT !.m.ok = FALSE]
    ELSE [e EXCEPT !.m.ub = FALSE,
                   !.rc = IF outcome = "success" THEN EXIT_SUCCESS
                                                 ELSE EXIT_FAILURE]

Handles == {"t1", NoTree}

InsertNull(k, s, fail, outcome) ==
    /\ ~ aborted
    /\ Return(Resolve(splay_insert(Mem, NoTree, k, s, fail), outcome),
              "insert", NoTree, NoTree, 0, NULL)

UpdateNull(k, s, outcome) ==
    /\ ~ aborted
    /\ Return(Resolve(splay_update(Mem, NoTree, k, s), outcome),
              "update", NoTree, NoTree, 0, NULL)

EraseNull(k, want) ==
    /\ ~ aborted
    /\ Return(splay_erase(Mem, NoTree, k, want),
              "erase", NoTree, NoTree, 0, NULL)

FindNull(k) ==
    /\ ~ aborted
    /\ Return(splay_find(Mem, NoTree, k), "find", NoTree, NoTree, 0, NULL)

MinNull ==
    /\ ~ aborted
    /\ Return(splay_min(Mem, NoTree), "min", NoTree, NoTree, 0, NULL)

MaxNull ==
    /\ ~ aborted
    /\ Return(splay_max(Mem, NoTree), "max", NoTree, NoTree, 0, NULL)

CtorNull ==
    /\ ~ aborted
    /\ Return(splay_tree_empty_ctor(Mem, NoTree),
              "ctor", NoTree, NoTree, 0, NULL)

ClearNull ==
    /\ ~ aborted
    /\ Return(splay_tree_clear(Mem, NoTree), "clear", NoTree, NoTree, 0, NULL)

CopyNull(ti, to, budget) ==
    /\ ~ aborted
    /\ NoTree \in {ti, to}
    /\ Return(splay_tree_copy(Mem, ti, to, budget), "copy", ti, to, 0, NULL)

MoveNull(ti, to) ==
    /\ ~ aborted
    /\ NoTree \in {ti, to}
    /\ Return(splay_tree_move(Mem, ti, to), "move", ti, to, 0, NULL)

NextNull ==
    \/ \E k \in KeysTwo, s \in Sats, fail \in BOOLEAN : InsertTwo(k, s, fail)
    \/ \E k \in KeysTwo : EraseTwo(k)
    \/ \E k \in KeysTwo : FindTwo(k)
    \/ \E k \in KeysTwo, s \in Sats, fail \in BOOLEAN, outcome \in Outcomes :
           InsertNull(k, s, fail, outcome)
    \/ \E k \in KeysTwo, s \in Sats, outcome \in Outcomes :
           UpdateNull(k, s, outcome)
    \/ \E k \in KeysTwo, want \in BOOLEAN : EraseNull(k, want)
    \/ \E k \in KeysTwo : FindNull(k)
    \/ MinNull
    \/ MaxNull
    \/ CtorNull
    \/ ClearNull
    \/ \E ti \in Handles, to \in Handles, budget \in 0..MaxNodes :
           CopyNull(ti, to, budget)
    \/ \E ti \in Handles, to \in Handles : MoveNull(ti, to)

SpecNull == Init /\ [][NextNull]_vars

\* The allocated nodes that no tree holds.
Lost == alloc \ (Subtree(Mem, root["t1"]) \cup Subtree(Mem, root["t2"]))

\* C17: every dictionary operation (insert, update, erase, find, min, max)
\* and every existential operation (constructor, clear, copy, move) called
\* with a null tree handle returns, reporting failure (not-found for find,
\* min and max), and no allocated node is lost.  It fails: insert and
\* update read t -> root without testing t, insert after it has allocated
\* the node.
C17_NullHandle ==
    (last.t = NoTree \/ last.to = NoTree) =>
        /\ ~ aborted
        /\ last.op \in {"find", "min", "max"} => last.r.found = 0
        /\ last.op \notin {"find", "min", "max"} => last.rc = EXIT_FAILURE
        /\ Lost = {}

\* m is the memory before a find, min or max on t1, e what the call
\* returned: the nodes of t1 from left to right are the same nodes in the
\* same order, no key and no satellite has changed, nor has the count.
QueryFrame(m, e) ==
    /\ e.m.ok
    /\ e.m.size = m.size
    /\ InOrder(e.m, e.m.root["t1"]) = InOrder(m, m.root["t1"])
    /\ e.m.keiy = m.keiy
    /\ e.m.sat = m.sat
    /\ e.m.alloc = m.alloc

\* m is the memory before find(k) on t1, e what the call returned.
FindFrame(m, e, k) ==
    /\ QueryFrame(m, e)
    /\ Holds(m, "t1", k) => e.r.found # 0

\* C18: find, min and max never change the count and never change the
\* left-to-right sequence of the records of the tree (the same nodes in the
\* same order, so also the order among records with equal keys, each with
\* its key and its satellite); only the shape may change.  A find of a
\* present key reports found.  So, on the tree made by inserting 1..n in
\* ascending order, any sequence of finds of present keys all report found
\* and the size stays n.
C18_QueryFrame ==
    /\ \A k \in Keys : FindFrame(Mem, splay_find(Mem, "t1", k), k)
    /\ QueryFrame(Mem, splay_min(Mem, "t1"))
    /\ QueryFrame(Mem, splay_max(Mem, "t1"))

\* The tree holds the keys 1..MaxNodes, one record each, and a find of key
\* 1 has just reported found and brought it to the root: the left chain
\* that ascending inserts make has become a right chain.
C18_Witness ==
    /\ Did("find")
    /\ last.k = 1
    /\ last.r.found = 1
    /\ size["t1"] = MaxNodes
    /\ \A i \in 1..MaxNodes : keiy[InOrder(Mem, root["t1"])[i]] = i
    /\ keiy[root["t1"]] = 1
    /\ \A n \in Subtree(Mem, root["t1"]) : left[n] = NULL

\* ------------------------------------------- the cleanup of the cli
\* for (r; (r = splay_max(tree)).found; free(r.sat))
\*     if (splay_erase(tree, r.key, NULL) != EXIT_SUCCESS) return fail(...);
\* r is what splay_max returned, e what splay_erase returned, passes the
\* number of times the loop body has run.  The satellites are strings the
\* cli allocated; free(r.sat) touches nothing of the tree.
RECURSIVE cleanup_loop(_, _, _)
RECURSIVE cleanup_erase(_, _, _)
cleanup_loop(r, t, passes) ==
    IF r.r.found # 0
    THEN cleanup_erase(splay_erase(r.m, t, r.r.key, FALSE), t, passes + 1)
    ELSE [m |-> r.m, rc |-> EXIT_SUCCESS, passes |-> passes]

cleanup_erase(e, t, passes) ==
    IF e.rc # EXIT_SUCCESS
    THEN [m |-> e.m, rc |-> EXIT_FAILURE, passes |-> passes]
    ELSE cleanup_loop(splay_max(e.m, t), t, passes)

\* c is what the loop left; splay_tree_dtor is splay_tree_clear with its
\* return value dropped.
cleanup_dtor(c, t) ==
    IF c.rc = EXIT_FAILURE
    THEN [m |-> c.m, rc |-> EXIT_FAILURE, r |-> SPLAY_BLANK_RESULT,
          psat |-> NoValue, passes |-> c.passes]
    ELSE [m |-> splay_tree_clear(c.m, t).m, rc |-> EXIT_SUCCESS,
          r |-> SPLAY_BLANK_RESULT, psat |-> NoValue, passes |-> c.passes]

cleanup(m, t) == cleanup_dtor(cleanup_loop(splay_max(m, t), t, 0), t)

\* The cli notes what cleanup returned; trip is the number of passes of its
\* loop.  main returns with it: the program has ended.
CleanupDone(e) ==
    Commit(e, [Call("cleanup", "t1", "t1", 0, NULL, e) EXCEPT
                  !.trip = e.passes])

Cleanup ==
    /\ ~ aborted
    /\ last.op # "cleanup"
    /\ CleanupDone(cleanup(Mem, "t1"))

\* The cli: any commands on its tree, then cleanup.
NextCli ==
    \/ last.op # "cleanup" /\ Next
    \/ Cleanup

SpecCli == Init /\ [][NextCli]_vars

\* r is what max returned on t1 and e what the erase of r.key after it
\* returned: success, and the record removed (and freed) is the one max
\* brought to the root, whose satellite is r.sat; every other record is kept.
DrainPass(r, e) ==
    /\ e.m.ok
    /\ e.rc = EXIT_SUCCESS
    /\ r.r.key = r.m.keiy[r.m.root["t1"]]
    /\ r.r.sat = r.m.sat[r.m.root["t1"]]
    /\ Subtree(e.m, e.m.root["t1"])
           = Subtree(r.m, r.m.root["t1"]) \ {r.m.root["t1"]}
    /\ e.m.alloc = r.m.alloc \ {r.m.root["t1"]}
    /\ Kept(r.m, e, Subtree(r.m, r.m.root["t1"]) \ {r.m.root["t1"]})
    /\ e.m.size["t1"] = r.m.size["t1"] - 1

\* Every pass of the drain loop that starts with r, what max returned, is
\* a DrainPass.
RECURSIVE DrainExact(_)
RECURSIVE DrainFrom(_, _)
DrainExact(r) ==
    r.r.found # 0 => DrainFrom(r, splay_erase(r.m, "t1", r.r.key, FALSE))

DrainFrom(r, e) ==
    /\ DrainPass(r, e)
    /\ DrainExact(splay_max(e.m, "t1"))

\* m is the memory before the drain loop on t1, c what the loop left.
DrainPost(m, c) ==
    /\ c.m.ok
    /\ c.rc = EXIT_SUCCESS
    /\ c.passes = Cardinality(Subtree(m, m.root["t1"]))
    /\ c.passes = m.size["t1"]
    /\ EmptyTree(c.m, "t1")
    /\ c.m.alloc = m.alloc \ Subtree(m, m.root["t1"])

\* C19: for any tree holding n records (duplicates allowed), the drain loop
\* 'r = max(); stop if not found; erase(r.key)' makes exactly n passes, in
\* each of which erase returns success and removes precisely the record
\* that max just returned (the one at the root, whose satellite is r.sat),
\* and it ends with the tree empty (count 0, no root).
C19_Drain ==
    /\ DrainPost(Mem, cleanup_loop(splay_max(Mem, "t1"), "t1", 0))
    /\ DrainExact(splay_max(Mem, "t1"))

\* cleanup has just returned success after as many passes as a full tree
\* has records; the tree is empty and no node is allocated.
C19_Witness ==
    /\ Did("cleanup")
    /\ last.rc = EXIT_SUCCESS
    /\ last.trip = MaxNodes
    /\ EmptyTree(Mem, "t1")
    /\ alloc = {}

\* ------------------------------------------------ the scenario of driver1
\* driver1 builds its tree with set_up, fifteen inserts of a NULL satellite
\* whose return values it drops, and then looks up a key of 1..31; here it
\* looks up a second key after the first, as driver3 does.  The heap has
\* room for the fifteen nodes; trip counts the calls made, and first is the
\* key of the first find.
DriverKeys == <<2, 6, 10, 14, 18, 22, 26, 30, 4, 12, 20, 28, 8, 24, 16>>

DriverFindKeys == 1..31

DriverNote(op, k, e, trip, first) ==
    [op |-> op, t |-> "t1", to |-> "t1", k |-> k, s |-> NULL,
     rc |-> e.rc, r |-> e.r, psat |-> e.psat,
     trip |-> trip, fresh |-> FALSE, first |-> first]

InitDriver ==
    /\ keiy = [n \in 1..Len(DriverKeys) |-> 0]
    /\ sat = [n \in 1..Len(DriverKeys) |-> NULL]
    /\ left = [n \in 1..Len(DriverKeys) |-> NULL]
    /\ right = [n \in 1..Len(DriverKeys) |-> NULL]
    /\ alloc = {}
    /\ root = [t \in Trees |-> NULL]
    /\ size = [t \in Trees |-> 0]
    /\ last = DriverNote("ctor", 0,
                         [rc |-> EXIT_SUCCESS, r |-> SPLAY_BLANK_RESULT,
                          psat |-> NoValue],
                         0, 0)
    /\ aborted = FALSE
    /\ run = NoRun

SetUpNote(e, k) == Land(e, DriverNote("insert", k, e, last.trip + 1, 0))

SetUpInsert ==
    /\ ~ aborted
    /\ last.trip < Len(DriverKeys)
    /\ SetUpNote(splay_insert(Mem, "t1", DriverKeys[last.trip + 1], NULL,
                              FALSE),
                 DriverKeys[last.trip + 1])

DriverFindNote(e, k) ==
    Land(e, DriverNote("find", k, e, last.trip + 1,
                       IF last.op = "find" THEN last.k ELSE k))

DriverFind(k) ==
    /\ ~ aborted
    /\ last.trip \in {Len(DriverKeys), Len(DriverKeys) + 1}
    /\ DriverFindNote(splay_find(Mem, "t1", k), k)

NextDriver ==
    \/ SetUpInsert
    \/ \E k \in DriverFindKeys : DriverFind(k)

SpecDriver == InitDriver /\ [][NextDriver]_vars

\* m is the memory after set_up and find(16), e what find(31) returns on
\* it.
FailedFindOf31(m, e) ==
    /\ e.m.ok
    /\ e.r.found = 0
    /\ e.m.root["t1"] = LastCompared(m, m.root["t1"], 31)
    /\ e.m.keiy[e.m.root["t1"]] = 30
    /\ \A n \in Subtree(m, m.root["t1"]) : m.keiy[n] <= 30
    /\ e.m.keiy[e.m.root["t1"]] # m.keiy[m.root["t1"]]

\* C20: inserting the keys 2,6,10,14,18,22,26,30,4,12,20,28,8,24,16 in that
\* order into an empty tree, every insert succeeds and the health check
\* passes after each of them; a find(16) then reports found, with root key
\* 16; a find(31) following it reports not-found and makes the root the
\* last node the failed search visited, whose key, 30, is the largest in
\* the tree and not the key the root had.
C20_Scenario ==
    /\ ~ aborted
    /\ last.trip \in 1..Len(DriverKeys) =>
          /\ last.rc = EXIT_SUCCESS
          /\ size["t1"] = last.trip
          /\ keiy[root["t1"]] = DriverKeys[last.trip]
          /\ splay_health_check(Mem, "t1") = EXIT_SUCCESS
    /\ (last.trip = Len(DriverKeys) + 1 /\ last.k = 16) =>
          /\ last.r.found = 1
          /\ last.r.key = 16
          /\ keiy[root["t1"]] = 16
          /\ size["t1"] = Len(DriverKeys)
          /\ splay_health_check(Mem, "t1") = EXIT_SUCCESS
          /\ FailedFindOf31(Mem, splay_find(Mem, "t1", 31))
    /\ (last.trip = Len(DriverKeys) + 2 /\ last.first = 16 /\ last.k = 31) =>
          /\ last.r.found = 0
          /\ keiy[root["t1"]] = 30
          /\ size["t1"] = Len(DriverKeys)
          /\ splay_health_check(Mem, "t1") = EXIT_SUCCESS

\* The fifteen inserts, find(16) and find(31) have been made, in that
\* order, and key 30 is at the root.
C20_Witness ==
    /\ ~ aborted
    /\ last.trip = Len(DriverKeys) + 2
    /\ last.op = "find"
    /\ last.first = 16
    /\ last.k = 31
    /\ last.r.found = 0
    /\ keiy[root["t1"]] = 30
    /\ size["t1"] = Len(DriverKeys)

\* ------------------------------------------------ the tree set_up builds
\* The number of nodes on the longest path from n down to a leaf.
RECURSIVE Height(_, _)
Height(m, n) ==
    IF n = NULL
    THEN 0
    ELSE IF Height(m, m.left[n]) >= Height(m, m.right[n])
    THEN 1 + Height(m, m.left[n])
    ELSE 1 + Height(m, m.right[n])

\* The subtree at n has h full levels and nothing below them.
RECURSIVE Perfect(_, _, _)
Perfect(m, n, h) ==
    IF h = 0
    THEN n = NULL
    ELSE /\ n # NULL
         /\ Perfect(m, m.left[n], h - 1)
         /\ Perfect(m, m.right[n], h - 1)

\* The depth of node x in the subtree at n, whose own depth is d.
RECURSIVE Depth(_, _, _, _)
Depth(m, n, x, d) ==
    IF n = x
    THEN d
    ELSE IF x \in Subtree(m, m.left[n])
    THEN Depth(m, m.left[n], x, d + 1)
    ELSE Depth(m, m.right[n], x, d + 1)

\* The height of a complete tree of fifteen nodes.
SetUpHeight == 4

RECURSIVE Shape(_, _)
Shape(m, n) ==
    IF n = NULL
    THEN <<>>
    ELSE <<Shape(m, m.left[n]), m.keiy[n], Shape(m, m.right[n])>>

\* The complete tree of three nodes with k in the middle of k - d, k + d.
Three(k, d) == <<<<<<>>, k - d, <<>>>>, k, <<<<>>, k + d, <<>>>>>>

\* The tree set_up builds: complete but for the keys 26, 28 and 30, which
\* hang as a right chain below 24.
SetUpShape ==
    <<<<Three(4, 2), 8, Three(12, 2)>>,
      16,
      <<Three(20, 2), 24, <<<<>>, 26, <<<<>>, 28, <<<<>>, 30, <<>>>>>>>>>>>>

RECURSIVE Leftmost(_, _)
Leftmost(m, n) ==
    IF m.left[n] = NULL THEN n ELSE Leftmost(m, m.left[n])

\* The nodes of the subtree at n have in b the fields they have in a.
SameNodes(a, b, n) ==
    \A x \in Subtree(a, n) :
        /\ b.keiy[x] = a.keiy[x]
        /\ b.sat[x] = a.sat[x]
        /\ b.left[x] = a.left[x]
        /\ b.right[x] = a.right[x]

\* f is what the find of erase returned with X at the root and a right
\* subtree below X, succ what min returned on that subtree (the root moved
\* to it, as erase does), e what erase returned.
EraseSuccPost(f, X, succ, e) ==
    /\ succ.m.ok
    /\ succ.r.found # 0
    /\ succ.m.root["t1"] = Leftmost(f, f.right[X])
    /\ succ.m.left[succ.m.root["t1"]] = NULL
    /\ e.m.root["t1"] = Leftmost(f, f.right[X])
    /\ e.m.left[e.m.root["t1"]] = f.left[X]
    /\ Subtree(e.m, e.m.right[e.m.root["t1"]])
           = Subtree(f, f.right[X]) \ {e.m.root["t1"]}

\* f is the memory the find of erase(k) left, with X at the root, e what
\* erase returned.
EraseRootPost(f, X, e) ==
    /\ e.m.ok
    /\ e.rc = EXIT_SUCCESS
    /\ X \notin e.m.alloc
    /\ SameNodes(f, e.m, f.left[X])
    /\ IF f.right[X] # NULL
       THEN EraseSuccPost(f, X,
                          splay_min([f EXCEPT !.root["t1"] = f.right[X]], "t1"),
                          e)
       ELSE e.m.root["t1"] = f.left[X]

\* One tree on a heap of one node more than MaxNodes, so that the node
\* erase removes can have a left subtree and a right subtree whose leftmost
\* node is not its root.  The caller inserts and finds, keeping no result,
\* and erases; of an erase it notes the key and the return code, and trip
\* is the number of nodes that were on the left spine of the right subtree
\* of the node to remove (0 when the key was not found or there was no
\* right subtree).
FourNodes == MaxNodes + 1

NoCall ==
    [op |-> "ctor", t |-> "t1", to |-> "t1", k |-> 0, s |-> NULL,
     rc |-> EXIT_SUCCESS, r |-> SPLAY_BLANK_RESULT,
     psat |-> NoValue, trip |-> 0, fresh |-> FALSE]

InitFour ==
    /\ keiy = [n \in 1..FourNodes |-> 0]
    /\ sat = [n \in 1..FourNodes |-> NULL]
    /\ left = [n \in 1..FourNodes |-> NULL]
    /\ right = [n \in 1..FourNodes |-> NULL]
    /\ alloc = {}
    /\ root = [t \in Trees |-> NULL]
    /\ size = [t \in Trees |-> 0]
    /\ last = NoCall
    /\ aborted = FALSE
    /\ run = NoRun

InsertFour(k, s) ==
    /\ ~ aborted
    /\ Land(splay_insert(Mem, "t1", k, s, FALSE), NoCall)

FindFour(k) ==
    /\ ~ aborted
    /\ Land(splay_find(Mem, "t1", k), NoCall)

\* The number of nodes on the left links from n.
RECURSIVE SpineLength(_, _)
SpineLength(m, n) ==
    IF n = NULL THEN 0 ELSE 1 + SpineLength(m, m.left[n])

\* f is what the find of erase(k) returns, e what erase(k) returns.
EraseNote(f, e, k) ==
    Land(e, [Call("erase", "t1", "t1", k, NULL, Quiet(e)) EXCEPT
                !.trip = IF f.r.found # 0
                         THEN SpineLength(f.m, f.m.right[f.m.root["t1"]])
                         ELSE 0])

EraseFour(k) ==
    /\ ~ aborted
    /\ EraseNote(splay_find(Mem, "t1", k), splay_erase(Mem, "t1", k, FALSE), k)

NextFour ==
    \/ \E k \in Keys, s \in Sats : InsertFour(k, s)
    \/ \E k \in Keys : FindFour(k)
    \/ \E k \in Keys : EraseFour(k)

SpecFour == InitFour /\ [][NextFour]_vars

\* f is what find(k) returned on t1, e what erase(k) returned on the same
\* memory.
EraseShape(f, e) ==
    IF f.r.found # 0
    THEN EraseRootPost(f.m, f.m.root["t1"], e)
    ELSE e.rc = EXIT_FAILURE

\* C22: when erase(k) succeeds and the node X that its find splayed to the
\* root has a right subtree, the new root is the leftmost node of that
\* subtree, which has no left child once min has splayed it up, and its
\* left child becomes the left subtree X had; when X has no right subtree,
\* the left subtree X had (empty or not) becomes the whole tree.
C22_EraseShape ==
    \A k \in Keys, want \in BOOLEAN :
        EraseShape(splay_find(Mem, "t1", k), splay_erase(Mem, "t1", k, want))

\* An erase has just removed, from a full tree, a node with a left subtree
\* and with a right subtree whose root had a left child: that child is the
\* new root, between the two subtrees.
C22_Witness ==
    /\ Did("erase")
    /\ last.rc = EXIT_SUCCESS
    /\ last.trip = 2
    /\ size["t1"] = FourNodes - 1
    /\ left[root["t1"]] # NULL
    /\ right[root["t1"]] # NULL
    /\ keiy[left[root["t1"]]] < last.k
    /\ last.k <= keiy[root["t1"]]

\* ------------------------------------------- splaying what is the root
\* e is what a call returned on the memory m: it found a record and left
\* the heap and the handles exactly as they were.
Untouched(m, e) ==
    /\ e.m.ok
    /\ e.r.found # 0
    /\ e.r.key = m.keiy[m.root["t1"]]
    /\ e.m.root = m.root
    /\ e.m.size = m.size
    /\ e.m.left = m.left
    /\ e.m.right = m.right
    /\ e.m.keiy = m.keiy
    /\ e.m.sat = m.sat
    /\ e.m.alloc = m.alloc

\* f is what find(k), min or max returned: if it found a record, the same
\* call made again on what it left is Untouched.
FindAgain(f, k) == f.r.found # 0 => Untouched(f.m, splay_find(f.m, "t1", k))

MinAgain(f) == f.r.found # 0 => Untouched(f.m, splay_min(f.m, "t1"))

MaxAgain(f) == f.r.found # 0 => Untouched(f.m, splay_max(f.m, "t1"))

\* C23: splaying a node that is the root already is the identity on the
\* tree: find(k) when the root's key is k, min when the root has no left
\* child and max when the root has no right child each leave every node's
\* left and right links (and the handle) exactly as they were; so a second
\* identical successful find, min or max changes nothing, and min on a tree
\* of one node keeps its shape.
C23_RootSplayIdentity ==
    /\ root["t1"] # NULL =>
          /\ Untouched(Mem, splay_find(Mem, "t1", keiy[root["t1"]]))
          /\ left[root["t1"]] = NULL => Untouched(Mem, splay_min(Mem, "t1"))
          /\ right[root["t1"]] = NULL => Untouched(Mem, splay_max(Mem, "t1"))
    /\ \A k \in Keys : FindAgain(splay_find(Mem, "t1", k), k)
    /\ MinAgain(splay_min(Mem, "t1"))
    /\ MaxAgain(splay_max(Mem, "t1"))

\* A find has just found the key that the insert before it had put at the
\* root of a full tree, between a record on its left and one on its right.
C23_Witness ==
    /\ Did("find")
    /\ last.trip = 2
    /\ last.r.found = 1
    /\ keiy[root["t1"]] = last.k
    /\ size["t1"] = MaxNodes
    /\ left[root["t1"]] # NULL
    /\ right[root["t1"]] # NULL

\* -------------------------------------------- a descent, step by step
\* The four descents (search_and_splay, insert_and_splay and the loops of
\* splay_min and splay_max) followed statement by statement.  In each the
\* loop body makes a first step down, then a second, and the loop's
\* increment is topdown_set_aside; pc is "top" at the head of the loop,
\* "one" after the first step, "two" after the second, "out" after the loop
\* of search_and_splay and "splice" where the remainder trees are joined to
\* the root.  A step returns the memory, the local root, found and the pc.
At(m, r, found, pc) == [m |-> m, cur |-> r, found |-> found, pc |-> pc]

Stepped(s, pc) == At(s.m, s.root, 0, pc)

search_first(m, r, k) ==
    IF LESSKEY(m, r, k) THEN Stepped(STEP_RIGHT_FIRST(m, r), "one")
    ELSE IF KEYLESS(m, k, r) THEN Stepped(STEP_LEFT_FIRST(m, r), "one")
    ELSE At(m, r, 1, "out")

search_second(m, r, k) ==
    IF NULL = r THEN Stepped(undo_first_step(m), "out")
    ELSE IF LESSKEY(m, r, k) THEN Stepped(STEP_RIGHT_2ND(m, r), "two")
    ELSE IF KEYLESS(m, k, r) THEN Stepped(STEP_LEFT_2ND(m, r), "two")
    ELSE At(m, r, 1, "out")

search_third(m, r) ==
    IF NULL = r THEN Stepped(undo_2nd_step(m), "out")
    ELSE At(topdown_set_aside(m), r, 0, "top")

\* The assertions after the loop and the final zig.
search_out(m, r, k, found) ==
    At(final_zig(search_asserts([m |-> m, root |-> r, found |-> found], k)),
       r, found, "splice")

search_splice(m, r, k, found, t) ==
    At(find_result([m |-> final_splice(m, r), root |-> r, found |-> found],
                   t, k).m,
       r, found, "idle")

min_first(m, r) ==
    IF m.left[r] # NULL THEN Stepped(STEP_LEFT_FIRST(m, r), "one")
    ELSE At(m, r, 0, "splice")

min_second(m, r) ==
    IF m.left[r] # NULL THEN Stepped(STEP_LEFT_2ND(m, r), "two")
    ELSE At(m, r, 0, "two")

max_first(m, r) ==
    IF m.right[r] # NULL THEN Stepped(STEP_RIGHT_FIRST(m, r), "one")
    ELSE At(m, r, 0, "splice")

max_second(m, r) ==
    IF m.right[r] # NULL THEN Stepped(STEP_RIGHT_2ND(m, r), "two")
    ELSE At(m, r, 0, "two")

insert_first(m, r, n) ==
    IF r = NULL THEN At(m, r, 0, "splice")
    ELSE IF LESSKEY(m, r, m.keiy[n]) THEN Stepped(STEP_RIGHT_FIRST(m, r), "one")
    ELSE Stepped(STEP_LEFT_FIRST(m, r), "one")

insert_second(m, r, n) ==
    IF r = NULL THEN At(m, r, 0, "two")
    ELSE IF LESSKEY(m, r, m.keiy[n]) THEN Stepped(STEP_RIGHT_2ND(m, r), "two")
    ELSE Stepped(STEP_LEFT_2ND(m, r), "two")

\* The increment of the loops of insert, min and max.
loop_increment(m, r) == At(topdown_set_aside(m), r, 0, "top")

\* The statements after each loop, to the return of the public function.
min_splice(m, r, t) == At(min_finish([m |-> m, root |-> r], t).m, r, 1, "idle")

max_splice(m, r, t) == At(max_finish([m |-> m, root |-> r], t).m, r, 1, "idle")

insert_splice(m, n, t) ==
    At(insert_done([m |-> insert_graft(m, n), root |-> n], n, t).m,
       n, 0, "idle")

\* The memory with the struct splay_Topdown of the operation under way.
RunMem == [Mem EXCEPT !.td = run.td]

\* The step s has been made: the memory is what it left and the frame moves
\* on, unless an assertion failed in it.
Put(s) ==
    IF s.m.ok
    THEN /\ keiy' = s.m.keiy
         /\ sat' = s.m.sat
         /\ left' = s.m.left
         /\ right' = s.m.right
         /\ alloc' = s.m.alloc
         /\ root' = s.m.root
         /\ size' = s.m.size
         /\ run' = IF s.pc = "idle"
                   THEN NoRun
                   ELSE [run EXCEPT !.td = s.m.td, !.cur = s.cur,
                                    !.found = s.found, !.pc = s.pc]
         /\ UNCHANGED <<last, aborted>>
    ELSE /\ aborted' = TRUE
         /\ UNCHANGED <<keiy, sat, left, right, alloc, root, size, last, run>>

\* A descent begins: the frame is set up and initialize_topdown has run.
Enter(op, k, n, m) ==
    /\ keiy' = m.keiy
    /\ sat' = m.sat
    /\ left' = m.left
    /\ right' = m.right
    /\ alloc' = m.alloc
    /\ run' = [op |-> op, k |-> k, n |-> n, cur |-> m.root["t1"],
               td |-> initialize_topdown(m).td, found |-> 0, pc |-> "top"]
    /\ UNCHANGED <<root, size, last, aborted>>

\* splay_find, splay_min and splay_max on a tree with a root (on an empty
\* tree none of them descends).
BeginFind(k) ==
    /\ ~ aborted
    /\ run.pc = "idle"
    /\ root["t1"] # NULL
    /\ Enter("find", k, NULL, Mem)

BeginMin ==
    /\ ~ aborted
    /\ run.pc = "idle"
    /\ root["t1"] # NULL
    /\ Enter("min", 0, NULL, Mem)

BeginMax ==
    /\ ~ aborted
    /\ run.pc = "idle"
    /\ root["t1"] # NULL
    /\ Enter("max", 0, NULL, Mem)

\* c is what node_ctor returned.  With no node splay_insert returns at
\* once; into an empty tree insert_and_splay returns n with no descent.
insert_enter(c, k) ==
    IF NULL = c.n
    THEN UNCHANGED vars
    ELSE IF NULL = c.m.root["t1"]
    THEN Put(insert_splice(c.m, c.n, "t1"))
    ELSE Enter("insert", k, c.n, c.m)

BeginInsert(k) ==
    /\ ~ aborted
    /\ run.pc = "idle"
    /\ insert_enter(node_ctor(Mem, k, NULL, FALSE), k)

FirstStep ==
    /\ ~ aborted
    /\ run.pc = "top"
    /\ Put(CASE run.op = "find" -> search_first(RunMem, run.cur, run.k)
             [] run.op = "min" -> min_first(RunMem, run.cur)
             [] run.op = "max" -> max_first(RunMem, run.cur)
             [] run.op = "insert" -> insert_first(RunMem, run.cur, run.n))

SecondStep ==
    /\ ~ aborted
    /\ run.pc = "one"
    /\ Put(CASE run.op = "find" -> search_second(RunMem, run.cur, run.k)
             [] run.op = "min" -> min_second(RunMem, run.cur)
             [] run.op = "max" -> max_second(RunMem, run.cur)
             [] run.op = "insert" -> insert_second(RunMem, run.cur, run.n))

ThirdStep ==
    /\ ~ aborted
    /\ run.pc = "two"
    /\ Put(IF run.op = "find"
           THEN search_third(RunMem, run.cur)
           ELSE loop_increment(RunMem, run.cur))

FinalZig ==
    /\ ~ aborted
    /\ run.pc = "out"
    /\ Put(search_out(RunMem, run.cur, run.k, run.found))

Splice ==
    /\ ~ aborted
    /\ run.pc = "splice"
    /\ Put(CASE run.op = "find" ->
                    search_splice(RunMem, run.cur, run.k, run.found, "t1")
             [] run.op = "min" -> min_splice(RunMem, run.cur, "t1")
             [] run.op = "max" -> max_splice(RunMem, run.cur, "t1")
             [] run.op = "insert" -> insert_splice(RunMem, run.n, "t1"))

\* An erase between two descents, seen as a whole.
EraseWhole(k) ==
    /\ ~ aborted
    /\ run.pc = "idle"
    /\ Land(splay_erase(Mem, "t1", k, FALSE), NoCall)

NextStep ==
    \/ \E k \in Keys : BeginFind(k)
    \/ BeginMin
    \/ BeginMax
    \/ \E k \in Keys : BeginInsert(k)
    \/ FirstStep
    \/ SecondStep
    \/ ThirdStep
    \/ FinalZig
    \/ Splice
    \/ \E k \in Keys : EraseWhole(k)

SpecStep == InitFour /\ [][NextStep]_vars

\* The history slots that hold a node.
Occupied(slots) == {i \in slots : run.td.history[i] # NULL}

\* C24: at every point of every descent (search, insert, min, max) at most
\* one of the two first-level history slots and at most one of the two
\* second-level slots is occupied, a second-level slot is occupied only if
\* a first-level slot is, and all four slots are empty right after every
\* topdown_set_aside (at the head of the loop) and where the final splice
\* is performed.
C24_History ==
    /\ Cardinality(Occupied({RIGHT_FIRST, LEFT_FIRST})) <= 1
    /\ Cardinality(Occupied({RIGHT_2ND, LEFT_2ND})) <= 1
    /\ Occupied({RIGHT_2ND, LEFT_2ND}) # {} =>
          Occupied({RIGHT_FIRST, LEFT_FIRST}) # {}
    /\ run.pc \in {"top", "splice", "idle"} =>
          Occupied(0..(TD_HIST_KEYS_END - 1)) = {}

\* A find on a full tree has made two steps down, first to the left and
\* then to the right, and a node lies below: both slots are about to be set
\* aside as a zig-zag.
C24_Witness ==
    /\ ~ aborted
    /\ run.op = "find"
    /\ run.pc = "two"
    /\ size["t1"] = FourNodes
    /\ run.td.history[LEFT_FIRST] # NULL
    /\ run.td.history[RIGHT_2ND] # NULL
    /\ run.cur # NULL

\* The nodes on the right links from n, and those on the left links from n:
\* the nodes attached, one after another, at the tip of the lesser and of
\* the greater remainder tree.
RECURSIVE RightSpine(_, _)
RightSpine(m, n) ==
    IF n = NULL THEN <<>> ELSE <<n>> \o RightSpine(m, m.right[n])

RECURSIVE LeftSpine(_, _)
LeftSpine(m, n) ==
    IF n = NULL THEN <<>> ELSE <<n>> \o LeftSpine(m, m.left[n])

\* spine is what was attached to the remainder tree rem, and link the child
\* link its tip walks along: the tip is the remainder's own root slot while
\* nothing is attached, else that link of the node attached last, and what
\* it designates is absent.
TipPost(m, rem, slot, spine, link) ==
    /\ rem.tip = IF spine = <<>> THEN slot ELSE <<link, spine[Len(spine)]>>
    /\ Deref(m, rem.tip) = NULL

\* C25: throughout every descent the tip of each remainder tree designates
\* an absent link: the remainder's own root slot while it is empty, else the
\* right-child link of the node last attached to the lesser remainder (the
\* left-child link for the greater one); the nodes attached at the lesser
\* tip appear in nondecreasing key order, those attached at the greater tip
\* in nonincreasing key order.
C25_Tips ==
    /\ TipPost(RunMem, run.td.rem[0], <<"rem", 0>>,
               RightSpine(RunMem, run.td.rem[0].root), "right")
    /\ TipPost(RunMem, run.td.rem[1], <<"rem", 1>>,
               LeftSpine(RunMem, run.td.rem[1].root), "left")
    /\ \A i, j \in DOMAIN RightSpine(RunMem, run.td.rem[0].root) :
          i < j => keiy[RightSpine(RunMem, run.td.rem[0].root)[i]]
                       <= keiy[RightSpine(RunMem, run.td.rem[0].root)[j]]
    /\ \A i, j \in DOMAIN LeftSpine(RunMem, run.td.rem[1].root) :
          i < j => keiy[LeftSpine(RunMem, run.td.rem[1].root)[i]]
                       >= keiy[LeftSpine(RunMem, run.td.rem[1].root)[j]]

\* A descent has come to its splice with two nodes attached, one after the
\* other and the second with the greater key, to the lesser remainder and
\* one to the greater.
C25_Witness ==
    /\ ~ aborted
    /\ run.pc = "splice"
    /\ Len(RightSpine(RunMem, run.td.rem[0].root)) = 2
    /\ keiy[run.td.rem[0].root] < keiy[right[run.td.rem[0].root]]
    /\ run.td.rem[0].tip = <<"right", right[run.td.rem[0].root]>>
    /\ run.td.rem[1].root # NULL
    /\ run.td.rem[1].tip = <<"left", run.td.rem[1].root>>

\* ------------------------------------------------------ the assertions
\* C26: no SPLAY_ASSERT fails in any state reachable by the public
\* operations on initialized trees, also after calls that returned failure
\* because an allocation failed; whenever copy or move would accept a
\* destination (its root is absent) the destination's count is 0, so that a
\* copy that failed on allocation can be made again into the same
\* destination.  It fails: the failed copy leaves the count of the source
\* in the destination, and SPLAY_ASSERT(0 == to -> size) of the next copy
\* or move into it fails.
C26_NoAssertFails ==
    /\ ~ aborted
    /\ \A to \in Trees : root[to] = NULL => size[to] = 0

\* ------------------------------------------------ the chain of driver2
\* driver2 inserts the keys 1, 2, ... in ascending order (a thousand of
\* them; here any number up to ChainMax), which makes a chain of left
\* links, and then finds key 1 and further keys; here it may also call min
\* for the first find.  trip counts the calls made.
\*
\* Another caller of the same library makes up to DupCalls calls of insert,
\* find and erase with the keys of KeysTwo, so with many records of one key,
\* and keeps nothing of them but their number.
ChainMax == 10

ChainFinds == 2

DupCalls == 12

InitChain ==
    /\ keiy = [n \in 1..ChainMax |-> 0]
    /\ sat = [n \in 1..ChainMax |-> NULL]
    /\ left = [n \in 1..ChainMax |-> NULL]
    /\ right = [n \in 1..ChainMax |-> NULL]
    /\ alloc = {}
    /\ root = [t \in Trees |-> NULL]
    /\ size = [t \in Trees |-> 0]
    /\ last = NoCall
    /\ aborted = FALSE
    /\ run = NoRun

ChainNote(op, k, e) ==
    Land(e, [Call(op, "t1", "t1", k, NULL, e) EXCEPT !.trip = last.trip + 1])

\* for (j = 0; j < 1000; ++j) splay_insert(&t, j+1, NULL)
ChainInsert ==
    /\ ~ aborted
    /\ last.op \in {"ctor", "insert"}
    /\ last.trip < ChainMax
    /\ ChainNote("insert", last.trip + 1,
                 splay_insert(Mem, "t1", last.trip + 1, NULL, FALSE))

\* The first find of the key schedule: key 1.
ChainFindFirst ==
    /\ ~ aborted
    /\ last.op = "insert"
    /\ ChainNote("find", 1, splay_find(Mem, "t1", 1))

ChainMin ==
    /\ ~ aborted
    /\ last.op = "insert"
    /\ ChainNote("min", 0, splay_min(Mem, "t1"))

\* A later find of the key schedule, of which there are up to ChainFinds.
ChainFindNext(k) ==
    /\ ~ aborted
    /\ last.op \in {"find", "min"}
    /\ last.trip <= size["t1"] + ChainFinds
    /\ k <= size["t1"]
    /\ ChainNote("find", k, splay_find(Mem, "t1", k))

DupNote(e) ==
    /\ ~ aborted
    /\ last.op \in {"ctor", "call"}
    /\ last.trip < DupCalls
    /\ Land(e, [NoCall EXCEPT !.op = "call", !.trip = last.trip + 1])

DupInsert(k) == DupNote(splay_insert(Mem, "t1", k, NULL, FALSE))

DupFind(k) == DupNote(splay_find(Mem, "t1", k))

DupErase(k) == DupNote(splay_erase(Mem, "t1", k, FALSE))

NextChain ==
    \/ ChainInsert
    \/ ChainFindFirst
    \/ ChainMin
    \/ \E k \in 1..ChainMax : ChainFindNext(k)
    \/ \E k \in KeysTwo : DupInsert(k)
    \/ \E k \in KeysTwo : DupFind(k)
    \/ \E k \in KeysTwo : DupErase(k)

SpecChain == InitChain /\ [][NextChain]_vars

\* Tree t1 is a chain of left links: it has a node, and no node of it has a
\* right child.
IsLeftChain(m) ==
    /\ m.root["t1"] # NULL
    /\ \A n \in Subtree(m, m.root["t1"]) : m.right[n] = NULL

\* The height is within the bound floor(n / 2) + 2 of the n nodes of m.
Halved(m, e) ==
    Height(e.m, e.m.root["t1"])
        <= (Cardinality(Subtree(m, m.root["t1"])) \div 2) + 2

\* The nodes of m that hold the least key of the left chain m.
Least(m) ==
    {x \in Subtree(m, m.root["t1"]) :
        m.keiy[x] = m.keiy[Leftmost(m, m.root["t1"])]}

\* m is a left chain and e what min returned on it.
ChainMinPost(m, e) ==
    /\ e.m.ok
    /\ e.r.found # 0
    /\ e.m.root["t1"] = Leftmost(m, m.root["t1"])
    /\ Halved(m, e)

\* m is a left chain and e what a find of its least key returned: the root
\* is the topmost node with that key, the others are the chain below it.
ChainFindPost(m, e) ==
    /\ e.m.ok
    /\ e.r.found # 0
    /\ e.r.key = m.keiy[Leftmost(m, m.root["t1"])]
    /\ e.m.root["t1"] \in Least(m)
    /\ Least(m) = LET c == LeftSpine(e.m, e.m.root["t1"])
                  IN  {c[i] : i \in DOMAIN c}
    /\ Cardinality(Least(m)) = 1 => e.m.root["t1"] = Leftmost(m, m.root["t1"])
    /\ Cardinality(Least(m)) <= (Cardinality(Subtree(m, m.root["t1"])) \div 2) + 2
          => Halved(m, e)
    /\ Height(e.m, e.m.root["t1"]) <= Cardinality(Subtree(m, m.root["t1"]))

\* C27 as stated: if the tree is a pure left chain of n >= 1 nodes (no node
\* has a right child), then after a find of the least key, or after min,
\* the height of the tree in nodes is at most floor(n / 2) + 2.  It fails
\* for find on a chain in which many nodes hold the least key: on a chain of
\* five records of one key the find is at the root and changes nothing.
C27_AnyChainHalved ==
    IsLeftChain(Mem) =>
        /\ Halved(Mem, splay_find(Mem, "t1", keiy[Leftmost(Mem, root["t1"])]))
        /\ Halved(Mem, splay_min(Mem, "t1"))

\* C27 as amended: on a pure left chain of n >= 1 nodes min leaves a tree
\* of height at most floor(n / 2) + 2, and so does a find of the least key
\* when one node only holds it (as after n strictly ascending inserts) or,
\* more generally, when not more than floor(n / 2) + 2 nodes hold it: the
\* find stops at the topmost node with the least key, and the others stay a
\* chain of left links below the new root.
C27_ChainHalved ==
    IsLeftChain(Mem) =>
        /\ ChainFindPost(Mem, splay_find(Mem, "t1",
                                         keiy[Leftmost(Mem, root["t1"])]))
        /\ ChainMinPost(Mem, splay_min(Mem, "t1"))

\* The find of key 1 after ChainMax ascending inserts has left a tree that
\* is no chain and whose height is within the bound.
C27_Witness ==
    /\ Did("find")
    /\ last.trip = ChainMax + 1
    /\ last.k = 1
    /\ last.r.found = 1
    /\ keiy[root["t1"]] = 1
    /\ size["t1"] = ChainMax
    /\ Height(Mem, root["t1"]) > 2
    /\ Height(Mem, root["t1"]) <= (ChainMax \div 2) + 2
    /\ Height(Mem, root["t1"]) < ChainMax

\* -------------------------------------------------- allocation and release
\* The heap of m holds the nodes of the two trees and nothing else: every
\* allocated node is reachable from one root, every reachable node is
\* allocated, and no node is reached twice (in two trees, or by two links of
\* one tree), so that no release of a tree frees a node twice.
Tidy(m) ==
    /\ ~ m.ub
    /\ NULL \notin m.alloc
    /\ m.alloc = Subtree(m, m.root["t1"]) \cup Subtree(m, m.root["t2"])
    /\ Subtree(m, m.root["t1"]) \cap Subtree(m, m.root["t2"]) = {}
    /\ \A t \in Trees :
          splay_nodecount(m, m.root[t]) = Cardinality(Subtree(m, m.root[t]))

\* e is what copy returned on the memory m: a failed copy leaves the heap
\* as it was before the call.
CopyTidy(m, e) ==
    /\ Tidy(e.m)
    /\ e.rc = EXIT_FAILURE => e.m.alloc = m.alloc

\* e is what clear returned on the tree t of m, and e2 what clear returned
\* when called again.
ClearTidy(m, t, e, e2) ==
    /\ Tidy(e.m)
    /\ e.m.alloc = m.alloc \ Subtree(m, m.root[t])
    /\ Tidy(e2.m)
    /\ e2.m.alloc = e.m.alloc

\* C28: after every public operation returns, the set of allocated and not
\* freed nodes equals the set of nodes reachable from the roots of the live
\* trees: no node is leaked, freed twice, or reachable after being freed.
\* This holds for erase, clear and the destructor (which is clear) called
\* again on an empty tree, and for a copy that fails on allocation: every
\* node allocated by that copy is released before it returns.
C28_NoLeak ==
    /\ Tidy(Mem)
    /\ \A t \in Trees :
          ClearTidy(Mem, t, splay_tree_clear(Mem, t),
                    splay_tree_clear(splay_tree_clear(Mem, t).m, t))
    /\ \A k \in KeysTwo : Tidy(splay_erase(Mem, "t1", k, FALSE).m)
    /\ \A ti \in Trees, to \in Trees, budget \in 0..MaxNodes :
          CopyTidy(Mem, splay_tree_copy(Mem, ti, to, budget))

\* A copy of a tree of two records has failed after copy_helper allocated a
\* node: the heap holds the two records of t1 and nothing else.
C28_Witness ==
    /\ ~ aborted
    /\ last.op = "copy"
    /\ last.t = "t1"
    /\ last.to = "t2"
    /\ last.rc = EXIT_FAILURE
    /\ root["t2"] = NULL
    /\ Cardinality(Subtree(Mem, root["t1"])) = MaxNodes - 1
    /\ alloc = Subtree(Mem, root["t1"])

\* ------------------------------------------------ the root of a failed find
\* m is the memory before find(k) on the non-empty tree t1, e what the call
\* returned, not found: the root's key is the greatest key below k or the
\* least key above k, and the tree holds the records it held.
NeighbourPost(m, e, k) ==
    /\ e.m.ok
    /\ e.m.root["t1"] # NULL
    /\ e.m.keiy[e.m.root["t1"]] # k
    /\ Subtree(e.m, e.m.root["t1"]) = Subtree(m, m.root["t1"])
    /\ \A n \in Subtree(m, m.root["t1"]) :
          /\ e.m.keiy[n] = m.keiy[n]
          /\ m.keiy[n] < k =>
                (e.m.keiy[e.m.root["t1"]] < k =>
                     m.keiy[n] <= e.m.keiy[e.m.root["t1"]])
          /\ m.keiy[n] > k =>
                (e.m.keiy[e.m.root["t1"]] > k =>
                     m.keiy[n] >= e.m.keiy[e.m.root["t1"]])

\* e is what find(k) returned on the memory m.
FailedFindRoot(m, e, k) ==
    (m.root["t1"] # NULL /\ e.r.found = 0) => NeighbourPost(m, e, k)

\* C29: after find(k) reports not-found on a non-empty tree, the root's key
\* is either the greatest key in the tree that is less than k or the least
\* key in the tree that is greater than k (the in-order predecessor or
\* successor of k).
C29_FailedFindNeighbour ==
    \A k \in Keys : FailedFindRoot(Mem, splay_find(Mem, "t1", k), k)

\* A find of a key that lies between the keys of a full tree has failed and
\* has left the predecessor at the root, with records on both sides.
C29_Witness ==
    /\ Did("find")
    /\ last.r.found = 0
    /\ size["t1"] = MaxNodes
    /\ root["t1"] # NULL
    /\ keiy[root["t1"]] < last.k
    /\ left[root["t1"]] # NULL
    /\ right[root["t1"]] # NULL
    /\ keiy[right[root["t1"]]] > last.k

\* --------------------------------------------------------- the DOT output
\* The file is the sequence of the lines written to it, each a tuple.  The writes to an
\* open file succeed (a full disk is no part of this model); fopen may fail.
\* The key of a phantom node is rand(): the line keeps the parent's key only.
print_phantom(out, parent_key) == Append(out, <<"phantom", parent_key>>)

\* The else-if branch of dot_out_help: a node that is not the root, its
\* in-edge, and the phantom siblings of an only child.
dot_left_phantom(m, tpar, out) ==
    IF NULL = m.left[tpar] THEN print_phantom(out, m.keiy[tpar]) ELSE out

dot_right_phantom(m, tpar, out) ==
    IF NULL = m.right[tpar] THEN print_phantom(out, m.keiy[tpar]) ELSE out

dot_edge(m, t, tpar, out) ==
    Append(Append(out, <<"node", m.keiy[t]>>),
           <<"edge", m.keiy[tpar], m.keiy[t]>>)

dot_child(m, t, tpar, out) ==
    dot_right_phantom(m, tpar, dot_edge(m, t, tpar,
                                        dot_left_phantom(m, tpar, out)))

\* What dot_out_help prints for *t itself.  With tpar equal to NULL it
\* prints t -> keiy without a test of t: on a null t this is a read through
\* a null pointer, and junk is the value the read yields where the program
\* survives it.
dot_self(m, t, tpar, out, junk) ==
    IF NULL = tpar
    THEN IF t # NULL
         THEN [m |-> m, out |-> Append(out, <<"node", m.keiy[t]>>)]
         ELSE [m |-> [m EXCEPT !.ub = TRUE],
               out |-> Append(out, <<"node", junk>>)]
    ELSE IF t # NULL
    THEN [m |-> m, out |-> dot_child(m, t, tpar, out)]
    ELSE [m |-> m, out |-> out]

RECURSIVE dot_out_help(_, _, _, _, _)
RECURSIVE dot_recurse(_, _, _)
RECURSIVE dot_recurse_right(_, _, _)
\* l is what dot_out_help(t -> left, t, f) returned.
dot_recurse_right(l, t, junk) ==
    dot_out_help(l.m, l.m.right[t], t, l.out, junk)

\* h is what dot_self left.
dot_recurse(h, t, junk) ==
    IF t # NULL
    THEN dot_recurse_right(dot_out_help(h.m, h.m.left[t], t, h.out, junk),
                           t, junk)
    ELSE [m |-> h.m, out |-> h.out, rc |-> EXIT_SUCCESS]

dot_out_help(m, t, tpar, out, junk) ==
    dot_recurse(dot_self(m, t, tpar, out, junk), t, junk)

\* d is what dot_out_help(t -> root, NULL, f) returned.
dot_close(d) ==
    [out |-> Append(d.out, <<"}">>)]
        @@ Ret(d.m, d.rc, SPLAY_BLANK_RESULT, NoValue)

\* opened tells whether fopen(filename, "w") succeeds.
splay_dot_output(m, t, opened, junk) ==
    IF NoTree = t \/ ~ opened
    THEN [out |-> << >>]
             @@ Ret(m, EXIT_FAILURE, SPLAY_BLANK_RESULT, NoValue)
    ELSE dot_close(dot_out_help(m, m.root[t], NULL,
                           << <<"digraph {">> >>, junk))

\* ------------------------------------------- the dot command of the cli
\* The cli under the commands of Next and the command dot, which writes the
\* tree to a file.  Besides the return code the note keeps the file (out)
\* and whether the call read through a null pointer (read); where it did,
\* the build decides what happens next (outcome).
DotDone(e, outcome) ==
    Land(Resolve(e, outcome),
         [out |-> e.out, read |-> e.m.ub]
             @@ Call("dot", "t1", "t1", 0, NULL, Resolve(e, outcome)))

Dot(opened, junk, outcome) ==
    /\ ~ aborted
    /\ DotDone(splay_dot_output(Mem, "t1", opened, junk), outcome)

NextDot ==
    \/ Next
    \/ \E opened \in BOOLEAN, junk \in 0..MaxKey, outcome \in Outcomes :
           Dot(opened, junk, outcome)

SpecDot == Init /\ [][NextDot]_vars

\* The keys of the node lines of the file out.
DotNodes(out) == {out[i][2] : i \in {j \in DOMAIN out : out[j][1] = "node"}}

\* C30: splay_dot_output called on an initialized empty tree (root absent,
\* size 0), as the dot command of the cli does when issued before any
\* insert, completes without reading any field of an absent node and emits
\* a graph description containing no nodes.  It fails: dot_out_help prints
\* t -> keiy of the root without a test of t, and the root is NULL.
C30_DotEmpty ==
    (last.op = "dot" /\ root["t1"] = NULL /\ size["t1"] = 0) =>
        /\ ~ aborted
        /\ ~ last.read
        /\ DotNodes(last.out) = {}

====
